---- MODULE Spec2Model ----
(***************************************************************************)
(* Model of the lacosta-back product catalogue API: the shared-secret      *)
(* access gate (middleware/auth.ts), the auth controller in its two        *)
(* copies (controllers/authController.ts and the getCookieConfig based     *)
(* copy), the cookie attribute computation (utils/cookieConfig.ts) and the *)
(* product handlers (controllers/productController.ts) over the products   *)
(* table (models/Product.ts).                                              *)
(*                                                                         *)
(* JavaScript strings are TLA+ strings; undefined and null are the two     *)
(* sentinel strings below, which no input set contains as a real value.    *)
(***************************************************************************)
EXTENDS Integers, Sequences, FiniteSets, TLC

VARIABLES
  env,         \* process.env: NODE_ENV, FRONTEND_URL, BACKEND_URL, ACCESS_CODE_HASH
  controller,  \* which copy of the auth controller the router imports
  jar,         \* the browser's auth_session cookie
  now,         \* wall clock, in hours
  products,    \* the products table: id -> row, over the ids that exist
  nextId,      \* the table's auto-increment counter
  pend,        \* per client: the product request in flight (between awaits)
  lastResp,    \* the last response the server sent
  proc         \* the server process: running, closing or exited, and its connection

vars == <<env, controller, jar, now, products, nextId, pend, lastResp, proc>>
authVars == <<env, controller, jar, now, proc>>
storeVars == <<products, nextId, pend>>

Undefined == "<undefined>"
Null == "<null>"
JsonObject == "<object>"    \* a non-string, non-boolean JavaScript value
JTrue == "<true>"           \* the booleans of JavaScript and of the database
JFalse == "<false>"

Falsy(v) == v \in {Undefined, Null, JFalse, ""}
IsString(v) == v \notin {Undefined, Null, JsonObject, JTrue, JFalse}
Not(v) == IF Falsy(v) THEN JTrue ELSE JFalse      \* JavaScript !v

(***************************************************************************)
(* String helpers (String.prototype.includes, toLowerCase, indexOf)        *)
(***************************************************************************)
Includes(s, sub) ==
  \E i \in 1..(Len(s) - Len(sub) + 1) : SubSeq(s, i, i + Len(sub) - 1) = sub

StartsWith(s, p) == Len(s) >= Len(p) /\ SubSeq(s, 1, Len(p)) = p

LowerChar(c) ==
  CASE c = "A" -> "a" [] c = "B" -> "b" [] c = "C" -> "c" [] c = "D" -> "d"
    [] c = "E" -> "e" [] c = "F" -> "f" [] c = "L" -> "l" [] c = "N" -> "n"
    [] c = "O" -> "o" [] c = "R" -> "r" [] c = "S" -> "s" [] c = "T" -> "t"
    [] c = "X" -> "x" [] c = "Y" -> "y"
    [] OTHER -> c

RECURSIVE ToLower(_)
ToLower(s) ==
  IF Len(s) = 0 THEN "" ELSE LowerChar(SubSeq(s, 1, 1)) \o ToLower(SubSeq(s, 2, Len(s)))

\* the length of the longest prefix of s that holds none of the stop characters
RECURSIVE PrefixLen(_, _)
PrefixLen(s, stops) ==
  IF Len(s) = 0 \/ SubSeq(s, 1, 1) \in stops THEN 0
  ELSE 1 + PrefixLen(SubSeq(s, 2, Len(s)), stops)

(***************************************************************************)
(* utils/cookieConfig.ts                                                   *)
(***************************************************************************)
COOKIE_MAX_AGE_MS == 24 * 60 * 60 * 1000
MS_PER_HOUR == 60 * 60 * 1000

DEFAULT_FRONTEND_URL == "http://localhost:3000"
DEFAULT_BACKEND_URL == "http://localhost:3001"

\* new URL(url): the text after the scheme, or Undefined when the
\* constructor throws (no http(s):// scheme, or an empty host)
UrlAuthority(url) ==
  LET rest == IF StartsWith(url, "https://") THEN SubSeq(url, 9, Len(url))
              ELSE IF StartsWith(url, "http://") THEN SubSeq(url, 8, Len(url))
              ELSE Undefined
  IN IF rest = Undefined THEN Undefined
     ELSE IF PrefixLen(rest, {":", "/", "?", "#"}) = 0 THEN Undefined
     ELSE rest

\* getDomain: new URL(url).hostname, or the url itself when it does not parse
getDomain(url) ==
  LET auth == UrlAuthority(url)
  IN IF auth = Undefined THEN url
     ELSE ToLower(SubSeq(auth, 1, PrefixLen(auth, {":", "/", "?", "#"})))

frontendUrlOf(e) == IF Falsy(e.FRONTEND_URL) THEN DEFAULT_FRONTEND_URL ELSE e.FRONTEND_URL
backendUrlOf(e) == IF Falsy(e.BACKEND_URL) THEN DEFAULT_BACKEND_URL ELSE e.BACKEND_URL

isProductionOf(e) == e.NODE_ENV = "production"

areDifferentDomains(e) == getDomain(frontendUrlOf(e)) # getDomain(backendUrlOf(e))

CrossSiteInAnyEnvironment(e) ==
  \/ areDifferentDomains(e)
  \/ (~Includes(frontendUrlOf(e), "localhost") /\ ~Includes(backendUrlOf(e), "localhost"))

useCrossSite(e) ==
  isProductionOf(e)
  /\ (areDifferentDomains(e)
      \/ (~Includes(frontendUrlOf(e), "localhost") /\ ~Includes(backendUrlOf(e), "localhost")))

getCookieConfig(e) ==
  LET sameSiteValue == IF useCrossSite(e) THEN "none" ELSE "lax"
      secureValue == IF sameSiteValue = "none" THEN TRUE ELSE isProductionOf(e)
  IN [httpOnly |-> TRUE, secure |-> secureValue, sameSite |-> sameSiteValue,
      path |-> "/", maxAge |-> COOKIE_MAX_AGE_MS]


(***************************************************************************)
(* bcrypt and cookie-parser, as far as the handlers depend on them         *)
(***************************************************************************)
ACCESS_CODE == "la-costa"            \* the shared secret the deployment hashed
BcryptHash(code) == "$2b$10$" \o code

\* bcrypt.compare(data, hash, cb): cb(err) when an argument is not a string,
\* otherwise cb(null, isMatch)
bcryptCompare(data, hash) ==
  IF ~IsString(data) \/ ~IsString(hash) THEN "err"
  ELSE IF hash = BcryptHash(data) THEN "match"
  ELSE "nomatch"

\* cookieParser(): req.cookies.auth_session for a raw cookie value; a value
\* with the j: prefix is JSON-decoded (here: to an object)
cookieParser(raw) ==
  IF raw = Undefined THEN Undefined
  ELSE IF StartsWith(raw, "j:") THEN JsonObject
  ELSE raw

(***************************************************************************)
(* Responses.  Every handler answers with one record of this shape; the    *)
(* fields a response does not carry keep the values of NoResp.             *)
(***************************************************************************)
NoSetCookie ==
  [present |-> FALSE, value |-> "", httpOnly |-> FALSE, secure |-> FALSE,
   sameSite |-> Undefined, path |-> Undefined, maxAge |-> -1, expires |-> -1]

NoRow ==
  [id |-> 0, ean |-> Null, name |-> Null, original_name |-> Null, brand |-> Null,
   category |-> Null, image_filename |-> Null, available |-> Null, comments |-> Null]

NoBody ==
  [id |-> Undefined, ean |-> Undefined, name |-> Undefined, original_name |-> Undefined,
   brand |-> Undefined, category |-> Undefined, image_filename |-> Undefined,
   available |-> Undefined, comments |-> Undefined]

NoQuery ==
  [brand |-> Undefined, category |-> Undefined, search |-> Undefined,
   available |-> Undefined, page |-> Undefined, limit |-> Undefined]

NoPagination == [present |-> FALSE, page |-> 0, limit |-> 0, total |-> 0, totalPages |-> 0]

NoResp ==
  [route |-> "none", cookie |-> Undefined, fromJar |-> FALSE,
   handler |-> "none", status |-> 0, success |-> FALSE, message |-> Undefined,
   authenticated |-> Undefined, setCookie |-> NoSetCookie,
   id |-> 0, body |-> NoBody, query |-> NoQuery,
   data |-> NoRow, image_url |-> Undefined, items |-> <<>>, urls |-> <<>>,
   count |-> -1, pagination |-> NoPagination, error |-> Undefined]

(***************************************************************************)
(* middleware/auth.ts                                                      *)
(***************************************************************************)
MSG_NO_SESSION == "No autorizado. Por favor, inicia sesion."
MSG_CONFIG == "Error de configuracion del servidor"
MSG_GATE_ERROR == "Error al verificar autenticacion"
MSG_BAD_SESSION == "Sesion invalida. Por favor, inicia sesion nuevamente."

AuthSkipsCompare(sessionToken, accessCodeHash) ==
  IF Falsy(sessionToken) THEN [next |-> FALSE, status |-> 401, message |-> MSG_NO_SESSION]
  ELSE IF Falsy(accessCodeHash) THEN [next |-> FALSE, status |-> 500, message |-> MSG_CONFIG]
  ELSE [next |-> TRUE, status |-> 0, message |-> Undefined]

AuthPassesWithoutHash(sessionToken, accessCodeHash) ==
  IF Falsy(sessionToken) THEN [next |-> FALSE, status |-> 401, message |-> MSG_NO_SESSION]
  ELSE IF Falsy(accessCodeHash) THEN [next |-> TRUE, status |-> 0, message |-> Undefined]
  ELSE CASE bcryptCompare(sessionToken, accessCodeHash) = "err" ->
              [next |-> FALSE, status |-> 500, message |-> MSG_GATE_ERROR]
         [] bcryptCompare(sessionToken, accessCodeHash) = "nomatch" ->
              [next |-> FALSE, status |-> 401, message |-> MSG_BAD_SESSION]
         [] OTHER -> [next |-> TRUE, status |-> 0, message |-> Undefined]

\* requireAuth: the verdict of the gate for the parsed cookie of a request
requireAuth(sessionToken, accessCodeHash) ==
  IF Falsy(sessionToken) THEN [next |-> FALSE, status |-> 401, message |-> MSG_NO_SESSION]
  ELSE IF Falsy(accessCodeHash) THEN [next |-> FALSE, status |-> 500, message |-> MSG_CONFIG]
  ELSE CASE bcryptCompare(sessionToken, accessCodeHash) = "err" ->
              [next |-> FALSE, status |-> 500, message |-> MSG_GATE_ERROR]
         [] bcryptCompare(sessionToken, accessCodeHash) = "nomatch" ->
              [next |-> FALSE, status |-> 401, message |-> MSG_BAD_SESSION]
         [] OTHER -> [next |-> TRUE, status |-> 0, message |-> Undefined]

(***************************************************************************)
(* Express res.cookie / res.clearCookie and the browser's cookie jar       *)
(***************************************************************************)
NoOptions ==
  [httpOnly |-> FALSE, secure |-> FALSE, sameSite |-> Undefined, path |-> Undefined,
   maxAge |-> -1]

\* res.cookie(name, value, options): maxAge becomes an expiry date, path
\* defaults to "/"
resCookie(value, opts, expires, t) ==
  [present |-> TRUE, value |-> value, httpOnly |-> opts.httpOnly, secure |-> opts.secure,
   sameSite |-> opts.sameSite,
   path |-> IF opts.path = Undefined THEN "/" ELSE opts.path,
   maxAge |-> opts.maxAge,
   expires |-> IF opts.maxAge >= 0 THEN t + (opts.maxAge \div MS_PER_HOUR) ELSE expires]

\* res.clearCookie(name, options).  Express 4 merges the options over
\* {expires: epoch, path: "/"} and hands them to res.cookie, where a maxAge
\* option overrides the expiry; Express 5 drops maxAge and forces the epoch.
ExpressMajor == {4, 5}

resClearCookie(opts, major, t) ==
  IF major = 4 THEN resCookie("", opts, 0, t)
  ELSE resCookie("", [opts EXCEPT !.maxAge = -1], 0, t)

NoCookie ==
  [present |-> FALSE, value |-> "", httpOnly |-> FALSE, secure |-> FALSE,
   sameSite |-> Undefined, path |-> Undefined, expires |-> -1]

\* the browser stores a Set-Cookie, or drops the cookie when it is expired
ApplySetCookie(sc, t) ==
  IF sc.expires >= 0 /\ sc.expires <= t THEN NoCookie
  ELSE [present |-> TRUE, value |-> sc.value, httpOnly |-> sc.httpOnly,
        secure |-> sc.secure, sameSite |-> sc.sameSite, path |-> sc.path,
        expires |-> sc.expires]

\* the raw auth_session value the browser attaches to a request
BrowserCookie == IF jar.present /\ now < jar.expires THEN jar.value ELSE Undefined

(***************************************************************************)
(* The auth controller.  The repository holds two copies of it: the one    *)
(* that takes the cookie attributes from getCookieConfig ("config") and    *)
(* controllers/authController.ts, which hardcodes them ("hardcoded").      *)
(***************************************************************************)
Controllers == {"config", "hardcoded"}

\* the options verifyAccessCode hands to res.cookie
loginCookieOptions ==
  IF controller = "config" THEN getCookieConfig(env)
  ELSE [httpOnly |-> TRUE,
        secure |-> (env.NODE_ENV = "production"),
        sameSite |-> "strict", path |-> Undefined, maxAge |-> COOKIE_MAX_AGE_MS]

\* the options logout hands to res.clearCookie
logoutCookieOptions ==
  IF controller = "config" THEN getCookieConfig(env) ELSE NoOptions

AuthResp(route, cookie, fromJar, status, success, message) ==
  [NoResp EXCEPT !.route = route, !.cookie = cookie, !.fromJar = fromJar,
                 !.status = status, !.success = success, !.message = message]

LoginCookieOnMismatch(access_code) ==
  /\ lastResp' =
       IF Falsy(access_code) THEN
         AuthResp("login", access_code, FALSE, 400, FALSE, "El codigo de acceso es requerido")
       ELSE IF Falsy(env.ACCESS_CODE_HASH) THEN
         AuthResp("login", access_code, FALSE, 500, FALSE, MSG_CONFIG)
       ELSE IF bcryptCompare(access_code, env.ACCESS_CODE_HASH) = "err" THEN
         AuthResp("login", access_code, FALSE, 500, FALSE, "Error al verificar codigo de acceso")
       ELSE
         [AuthResp("login", access_code, FALSE, 200, TRUE, "Autenticacion exitosa")
            EXCEPT !.setCookie = resCookie(access_code, loginCookieOptions, -1, now)]
  /\ jar' = IF lastResp'.setCookie.present THEN ApplySetCookie(lastResp'.setCookie, now)
            ELSE jar
  /\ UNCHANGED <<proc, env, controller, now, storeVars>>

\* POST /api/auth/login with body {access_code}
verifyAccessCode(access_code) ==
  /\ lastResp' =
       IF Falsy(access_code) THEN
         AuthResp("login", access_code, FALSE, 400, FALSE, "El codigo de acceso es requerido")
       ELSE IF Falsy(env.ACCESS_CODE_HASH) THEN
         AuthResp("login", access_code, FALSE, 500, FALSE, MSG_CONFIG)
       ELSE IF bcryptCompare(access_code, env.ACCESS_CODE_HASH) = "err" THEN
         AuthResp("login", access_code, FALSE, 500, FALSE, "Error al verificar codigo de acceso")
       ELSE IF bcryptCompare(access_code, env.ACCESS_CODE_HASH) = "nomatch" THEN
         AuthResp("login", access_code, FALSE, 401, FALSE, "Codigo de acceso incorrecto")
       ELSE
         [AuthResp("login", access_code, FALSE, 200, TRUE, "Autenticacion exitosa")
            EXCEPT !.setCookie = resCookie(access_code, loginCookieOptions, -1, now)]
  /\ jar' = IF lastResp'.setCookie.present THEN ApplySetCookie(lastResp'.setCookie, now)
            ELSE jar
  /\ UNCHANGED <<proc, env, controller, now, storeVars>>

\* POST /api/auth/logout
logout(major) ==
  /\ lastResp' =
       [AuthResp("logout", Undefined, FALSE, 200, TRUE, "Sesion cerrada exitosamente")
          EXCEPT !.setCookie = resClearCookie(logoutCookieOptions, major, now)]
  /\ jar' = ApplySetCookie(lastResp'.setCookie, now)
  /\ UNCHANGED <<proc, env, controller, now, storeVars>>

CheckTrustsAnyCookie(raw, fromJar) ==
  LET sessionToken == cookieParser(raw)
      ok == ~Falsy(sessionToken)
  IN /\ lastResp' =
          [AuthResp("check", sessionToken, fromJar, 200, ok, Undefined)
             EXCEPT !.authenticated = IF ok THEN JTrue ELSE JFalse]
     /\ UNCHANGED <<proc, env, controller, jar, now, storeVars>>

\* GET /api/auth/check with the raw auth_session cookie of the request
checkAuth(raw, fromJar) ==
  LET sessionToken == cookieParser(raw)
      accessCodeHash == env.ACCESS_CODE_HASH
      ok == /\ ~(Falsy(sessionToken) \/ Falsy(accessCodeHash))
            /\ bcryptCompare(sessionToken, accessCodeHash) = "match"
  IN /\ lastResp' =
          [AuthResp("check", sessionToken, fromJar, 200, ok, Undefined)
             EXCEPT !.authenticated = IF ok THEN JTrue ELSE JFalse]
     /\ UNCHANGED <<proc, env, controller, jar, now, storeVars>>

\* time passes
TickHours == 12
MaxClock == 36

Tick ==
  /\ now + TickHours <= MaxClock
  /\ now' = now + TickHours
  /\ UNCHANGED <<proc, env, controller, jar, lastResp, storeVars>>

(***************************************************************************)
(* models/Product.ts and the Sequelize calls of the product controller.    *)
(* A row carries id, ean, name, original_name, brand, category,            *)
(* image_filename, available and comments; the remaining nullable text     *)
(* columns (page, url, description, type, variety) behave as original_name *)
(* does and are left out.                                                  *)
(***************************************************************************)
\* the dialect new Sequelize({dialect}) is configured with, and the dialect
\* whose operator Op.iLike the product controller uses
CONFIGURED_DIALECT == "mysql"
Dialects == {CONFIGURED_DIALECT, "postgres"}

Fields ==
  {"ean", "name", "original_name", "brand", "category", "image_filename",
   "available", "comments"}

Ids == DOMAIN products

\* Product.findByPk(id): the row, or null
FindsAnyRow(id) == IF Ids = {} THEN NoRow ELSE products[CHOOSE i \in Ids : TRUE]

findByPk(id) == IF id \in Ids THEN products[id] ELSE NoRow
FoundAlways(row) == TRUE

Found(row) == row.id # 0

\* column defaults of Product.init: available defaults to true, every other
\* column a create does not supply is NULL
DefaultNeverApplied(field) == Null

columnDefault(field) == IF field = "available" THEN JTrue ELSE Null

\* the row Product.create(values) builds for a fresh id
buildRow(id, values) ==
  [ean |-> IF values.ean = Undefined THEN columnDefault("ean") ELSE values.ean,
   name |-> IF values.name = Undefined THEN columnDefault("name") ELSE values.name,
   original_name |-> IF values.original_name = Undefined THEN columnDefault("original_name")
                     ELSE values.original_name,
   brand |-> IF values.brand = Undefined THEN columnDefault("brand") ELSE values.brand,
   category |-> IF values.category = Undefined THEN columnDefault("category")
                ELSE values.category,
   image_filename |-> IF values.image_filename = Undefined THEN columnDefault("image_filename")
                      ELSE values.image_filename,
   available |-> IF values.available = Undefined THEN columnDefault("available")
                 ELSE values.available,
   comments |-> IF values.comments = Undefined THEN columnDefault("comments")
                ELSE values.comments,
   id |-> id]

\* product.toJSON() of the instance Product.create(values) resolves to: the
\* supplied values, the defaults and the generated id; the columns the
\* INSERT left NULL are read back only where the dialect's INSERT returns
\* the row (postgres), otherwise the instance does not hold them
\* the value the created instance holds for a column
heldAfterCreate(values, field) ==
  IF values[field] # Undefined THEN values[field]
  ELSE IF columnDefault(field) # Null THEN columnDefault(field)
  ELSE Undefined

createdJSON(id, values) ==
  IF env.DB_DIALECT = "postgres" THEN buildRow(id, values)
  ELSE [ean |-> heldAfterCreate(values, "ean"),
        name |-> heldAfterCreate(values, "name"),
        original_name |-> heldAfterCreate(values, "original_name"),
        brand |-> heldAfterCreate(values, "brand"),
        category |-> heldAfterCreate(values, "category"),
        image_filename |-> heldAfterCreate(values, "image_filename"),
        available |-> heldAfterCreate(values, "available"),
        comments |-> heldAfterCreate(values, "comments"),
        id |-> id]

\* instance.set(values): every supplied column is overwritten; the primary
\* key of a persisted instance is never reassigned
SetOverwritesAll(row, values) == buildRow(row.id, values)

setValues(row, values) ==
  [ean |-> IF values.ean = Undefined THEN row.ean ELSE values.ean,
   name |-> IF values.name = Undefined THEN row.name ELSE values.name,
   original_name |-> IF values.original_name = Undefined THEN row.original_name
                     ELSE values.original_name,
   brand |-> IF values.brand = Undefined THEN row.brand ELSE values.brand,
   category |-> IF values.category = Undefined THEN row.category ELSE values.category,
   image_filename |-> IF values.image_filename = Undefined THEN row.image_filename
                      ELSE values.image_filename,
   available |-> IF values.available = Undefined THEN row.available ELSE values.available,
   comments |-> IF values.comments = Undefined THEN row.comments ELSE values.comments,
   id |-> row.id]

\* the validators of Product.init on the supplied columns: ean is
\* allowNull: false with notEmpty, available is allowNull: false
validationFails(values) ==
  \/ values.ean \in {Null, ""}
  \/ values.available = Null

\* the unique index on ean: some other row already holds this ean
UniqueNeverViolated(ean, selfId) == FALSE

uniqueViolation(ean, selfId) ==
  \E i \in Ids : i # selfId /\ products[i].ean = ean

(***************************************************************************)
(* services/s3Service.ts                                                   *)
(***************************************************************************)
PLACEHOLDER == "placeholder.webp"
SignedUrl(key) == "https://s3/" \o key \o "?X-Amz-Expires=3600"

\* getPresignedImageUrl(imageFilename); s3ok says whether the signing call
\* succeeds
getPresignedImageUrl(imageFilename, s3ok) ==
  IF Falsy(imageFilename) \/ Falsy(env.S3_BUCKET) THEN Null
  ELSE IF s3ok THEN SignedUrl(imageFilename)
  ELSE Null

\* the filename a handler resolves for a row
imageToUse(row) == IF Falsy(row.image_filename) THEN PLACEHOLDER ELSE row.image_filename

(***************************************************************************)
(* controllers/productController.ts behind app.use('/api', requireAuth,    *)
(* productRoutes).  A handler that awaits between a read and a write is    *)
(* two actions; pend holds what it keeps across the await.                 *)
(***************************************************************************)
Clients == {1, 2}
MaxProducts == 2          \* rows ever inserted

Idle ==
  [op |-> "idle", cookie |-> Undefined, id |-> 0, body |-> NoBody, query |-> NoQuery,
   snap |-> NoRow, total |-> 0, found |-> <<>>, urls |-> <<>>]

\* the process after startServer(): listening, the connection pool open, no
\* shutdown signal received
Running ==
  [state |-> "running", dbOpen |-> TRUE, signal |-> Undefined,
   atSignal |-> [r \in Clients |-> Idle]]

MSG_NOT_FOUND == "Producto no encontrado"
MSG_REQUIRED == "EAN, nombre y marca son campos requeridos"
MSG_DUPLICATE_EAN == "Ya existe un producto con ese EAN"

\* the verdict of the gate for the raw cookie of a request
GateOpen(raw) == [next |-> TRUE, status |-> 0, message |-> Undefined]

Gate(raw) == requireAuth(cookieParser(raw), env.ACCESS_CODE_HASH)

\* the response of a request the gate turns away
Rejection(route, raw) ==
  [NoResp EXCEPT !.route = route, !.cookie = cookieParser(raw),
                 !.status = Gate(raw).status, !.message = Gate(raw).message]

\* the response of a handler that ran
Handled(route, cookie, status, success, message) ==
  [NoResp EXCEPT !.route = route, !.cookie = cookie, !.handler = route,
                 !.status = status, !.success = success, !.message = message]

WithRow(resp, row, s3ok) ==
  [resp EXCEPT !.data = row, !.image_url = getPresignedImageUrl(imageToUse(row), s3ok)]

\* GET /api/products/:id
getProductById(r, raw, id, s3ok) ==
  /\ pend[r].op = "idle"
  /\ lastResp' =
       IF ~Gate(raw).next THEN Rejection("getProductById", raw)
       ELSE IF ~Found(findByPk(id)) THEN
         [Handled("getProductById", cookieParser(raw), 404, FALSE, MSG_NOT_FOUND)
            EXCEPT !.id = id]
       ELSE
         [WithRow(Handled("getProductById", cookieParser(raw), 200, TRUE, Undefined),
                  findByPk(id), s3ok)
            EXCEPT !.id = id]
  /\ UNCHANGED <<authVars, storeVars>>

\* POST /api/products
createProduct(r, raw, productData, s3ok, burnId) ==
  /\ pend[r].op = "idle"
  /\ nextId <= MaxProducts
  /\ IF ~Gate(raw).next THEN
       /\ lastResp' = Rejection("createProduct", raw)
       /\ UNCHANGED <<products, nextId>>
     ELSE IF Falsy(productData.ean) \/ Falsy(productData.name) \/ Falsy(productData.brand) THEN
       /\ lastResp' = [Handled("createProduct", cookieParser(raw), 400, FALSE, MSG_REQUIRED)
                         EXCEPT !.body = productData]
       /\ UNCHANGED <<products, nextId>>
     ELSE IF validationFails(productData) THEN
       /\ lastResp' = [Handled("createProduct", cookieParser(raw), 500, FALSE,
                               "Error al crear producto")
                         EXCEPT !.body = productData, !.error = "SequelizeValidationError"]
       /\ UNCHANGED <<products, nextId>>
     ELSE IF uniqueViolation(productData.ean, 0) THEN
       /\ lastResp' = [Handled("createProduct", cookieParser(raw), 400, FALSE,
                               MSG_DUPLICATE_EAN)
                         EXCEPT !.body = productData]
       /\ UNCHANGED products
       /\ nextId' = IF burnId THEN nextId + 1 ELSE nextId
     ELSE
       /\ products' = [i \in Ids \cup {nextId} |->
                         IF i = nextId THEN buildRow(nextId, productData) ELSE products[i]]
       /\ nextId' = nextId + 1
       /\ lastResp' = [WithRow(Handled("createProduct", cookieParser(raw), 201, TRUE,
                                       "Producto creado exitosamente"),
                               createdJSON(nextId, productData), s3ok)
                         EXCEPT !.body = productData, !.id = nextId]
  /\ UNCHANGED <<authVars, pend>>

\* the first half of the handlers that load a row and then write it:
\* requireAuth, then await Product.findByPk(id)
LoadRow(route, r, raw, id, body) ==
  /\ pend[r].op = "idle"
  /\ IF ~Gate(raw).next THEN
       /\ lastResp' = Rejection(route, raw)
       /\ UNCHANGED pend
     ELSE IF ~Found(findByPk(id)) THEN
       /\ lastResp' = [Handled(route, cookieParser(raw), 404, FALSE, MSG_NOT_FOUND)
                         EXCEPT !.id = id]
       /\ UNCHANGED pend
     ELSE
       /\ pend' = [pend EXCEPT ![r] =
                     [Idle EXCEPT !.op = route, !.cookie = cookieParser(raw), !.id = id,
                                  !.body = body, !.snap = findByPk(id)]]
       /\ UNCHANGED lastResp
  /\ UNCHANGED <<authVars, products, nextId>>

\* instance.update(values) on the instance a handler loaded: the supplied
\* columns are validated and, when at least one of them differs from the
\* loaded instance, written by one UPDATE ... WHERE id; the result is
\* "ok", "SequelizeValidationError" or "SequelizeUniqueConstraintError"
SaveIgnoresUniqueIndex(snap, values) == "ok"

saveOutcome(snap, values) ==
  IF validationFails(values) THEN "SequelizeValidationError"
  ELSE IF /\ setValues(snap, values) # snap
          /\ snap.id \in Ids
          /\ values.ean # Undefined
          /\ uniqueViolation(values.ean, snap.id) THEN "SequelizeUniqueConstraintError"
  ELSE "ok"

SaveInsertsWhenRowIsGone(snap, values) ==
  IF setValues(snap, values) = snap THEN products
  ELSE [i \in Ids \cup {snap.id} |->
          IF i = snap.id THEN setValues(snap, values) ELSE products[i]]

SavesOnlyOverRowAsRead(snap, values) ==
  IF snap.id \notin Ids \/ products[snap.id] # snap THEN products
  ELSE [products EXCEPT ![snap.id] = setValues(products[snap.id], values)]

\* the table after instance.update(values) succeeded
tableAfterSave(snap, values) ==
  IF setValues(snap, values) = snap \/ snap.id \notin Ids THEN products
  ELSE [products EXCEPT ![snap.id] = setValues(products[snap.id], values)]

\* the second half of a write handler: the response after the save
SaveAndRespond(route, r, values, okMessage, errMessage, catchesUnique, s3ok) ==
  /\ pend[r].op = route
  /\ LET snap == pend[r].snap
         outcome == saveOutcome(snap, values)
         base == [Handled(route, pend[r].cookie, 0, FALSE, Undefined)
                    EXCEPT !.id = pend[r].id]
     IN IF outcome = "ok" THEN
          /\ products' = tableAfterSave(snap, values)
          /\ lastResp' = WithRow([base EXCEPT !.status = 200, !.success = TRUE,
                                              !.message = okMessage],
                                 setValues(snap, values), s3ok)
        ELSE IF outcome = "SequelizeUniqueConstraintError" /\ catchesUnique THEN
          /\ UNCHANGED products
          /\ lastResp' = [base EXCEPT !.status = 400, !.message = MSG_DUPLICATE_EAN]
        ELSE
          /\ UNCHANGED products
          /\ lastResp' = [base EXCEPT !.status = 500, !.message = errMessage,
                                      !.error = outcome]
  /\ pend' = [pend EXCEPT ![r] = Idle]
  /\ UNCHANGED <<authVars, nextId>>

\* PUT /api/products/:id
updateProductLoad(r, raw, id, productData) == LoadRow("updateProduct", r, raw, id, productData)

updateProductSave(r, s3ok) ==
  SaveAndRespond("updateProduct", r, pend[r].body, "Producto actualizado exitosamente",
                 "Error al actualizar producto", TRUE, s3ok)

\* PATCH /api/products/:id/toggle-availability
toggleAvailabilityLoad(r, raw, id) == LoadRow("toggleAvailability", r, raw, id, NoBody)

ToggleWritesSame(r, s3ok) ==
  SaveAndRespond("toggleAvailability", r,
                 [NoBody EXCEPT !.available = JTrue],
                 "Producto disponible", "Error al cambiar disponibilidad", FALSE, s3ok)

toggleAvailabilitySave(r, s3ok) ==
  SaveAndRespond("toggleAvailability", r,
                 [NoBody EXCEPT !.available = Not(pend[r].snap.available)],
                 IF Not(pend[r].snap.available) = JTrue THEN "Producto disponible"
                 ELSE "Producto no disponible",
                 "Error al cambiar disponibilidad", FALSE, s3ok)

\* PATCH /api/products/:id/comments with body {comments}
updateCommentsLoad(r, raw, id, comments) ==
  LoadRow("updateComments", r, raw, id, [NoBody EXCEPT !.comments = comments])

CommentsStoredAsGiven(r, s3ok) ==
  SaveAndRespond("updateComments", r,
                 [NoBody EXCEPT !.comments = pend[r].body.comments],
                 "Comentarios actualizados exitosamente",
                 "Error al actualizar comentarios", FALSE, s3ok)

updateCommentsSave(r, s3ok) ==
  SaveAndRespond("updateComments", r,
                 [NoBody EXCEPT !.comments =
                    IF Falsy(pend[r].body.comments) THEN Null ELSE pend[r].body.comments],
                 "Comentarios actualizados exitosamente",
                 "Error al actualizar comentarios", FALSE, s3ok)

\* DELETE /api/products/:id
deleteProductLoad(r, raw, id) == LoadRow("deleteProduct", r, raw, id, NoBody)

deleteProductDestroy(r) ==
  /\ pend[r].op = "deleteProduct"
  /\ products' = [i \in Ids \ {pend[r].id} |-> products[i]]
  /\ lastResp' = [Handled("deleteProduct", pend[r].cookie, 200, TRUE,
                          "Producto eliminado exitosamente")
                    EXCEPT !.id = pend[r].id]
  /\ pend' = [pend EXCEPT ![r] = Idle]
  /\ UNCHANGED <<authVars, nextId>>

\* process.on('SIGTERM' | 'SIGINT'): the handler starts and calls
\* sequelize.close(), from which moment the connection manager hands out no
\* connection; server.close() is not called
Signals == {"SIGTERM", "SIGINT"}

shutdownSignal(sig) ==
  /\ proc.state = "running"
  /\ proc' = [proc EXCEPT !.state = "closing", !.signal = sig, !.atSignal = pend]
  /\ UNCHANGED <<env, controller, jar, now, storeVars, lastResp>>

\* ... await sequelize.close() resolves and process.exit(0) ends the process
shutdownExit ==
  /\ proc.state = "closing"
  /\ proc' = [proc EXCEPT !.state = "exited", !.dbOpen = FALSE]
  /\ UNCHANGED <<env, controller, jar, now, storeVars, lastResp>>

\* the message of the catch block of each handler
ErrorMessage(route) ==
  IF route = "updateProduct" THEN "Error al actualizar producto"
  ELSE IF route = "deleteProduct" THEN "Error al eliminar producto"
  ELSE IF route = "toggleAvailability" THEN "Error al cambiar disponibilidad"
  ELSE IF route = "updateComments" THEN "Error al actualizar comentarios"
  ELSE "Error al obtener productos"

\* the next store call of a request in flight, made after sequelize.close()
\* began: it rejects and the handler's catch answers 500
storeCallAfterClose(r) ==
  /\ proc.state = "closing"
  /\ pend[r].op \in {"updateProduct", "deleteProduct", "toggleAvailability",
                     "updateComments", "getAllProducts"}
  /\ lastResp' = [Handled(pend[r].op, pend[r].cookie, 500, FALSE, ErrorMessage(pend[r].op))
                    EXCEPT !.id = pend[r].id, !.query = pend[r].query,
                           !.error = "ConnectionManagerClosed"]
  /\ pend' = [pend EXCEPT ![r] = Idle]
  /\ UNCHANGED <<authVars, products, nextId>>

\* A request whose path and method match no route.  Under /api it passes
\* authRoutes unmatched and then the gate mounted in front of productRoutes;
\* what the gate lets through, and every path outside /api, ends in the
\* app.use('*') handler.
MSG_ROUTE_NOT_FOUND == "Ruta no encontrada"
UNKNOWN_UNDER_API == "unknown:/api/*"
UNKNOWN_ELSEWHERE == "unknown:/*"

unknownRoute(raw, underApi) ==
  /\ pend[1].op = "idle"
  /\ lastResp' =
       IF underApi /\ ~Gate(raw).next THEN Rejection(UNKNOWN_UNDER_API, raw)
       ELSE [NoResp EXCEPT !.route = IF underApi THEN UNKNOWN_UNDER_API ELSE UNKNOWN_ELSEWHERE,
                           !.cookie = cookieParser(raw), !.status = 404, !.success = FALSE,
                           !.message = MSG_ROUTE_NOT_FOUND]
  /\ UNCHANGED <<authVars, storeVars>>

\* the global error handler of index.ts, reached when a middleware ahead of
\* the routes fails: express.json() on a request body that is not JSON
MSG_INTERNAL == "Error interno del servidor"

globalErrorHandler(errMessage) ==
  [NoResp EXCEPT !.route = "errorHandler", !.status = 500, !.success = FALSE,
                 !.message = MSG_INTERNAL,
                 !.error = IF env.NODE_ENV = "development" THEN errMessage ELSE Undefined]

malformedJsonBody ==
  /\ pend[1].op = "idle"
  /\ lastResp' = globalErrorHandler("SyntaxError")
  /\ UNCHANGED <<authVars, storeVars>>

(***************************************************************************)
(* The list queries: WHERE, ILIKE, ORDER BY, LIMIT / OFFSET                *)
(***************************************************************************)
\* byte order of the characters the inputs use
ALPHABET == "%-.0123456789:ABCDEFGHIJKLMNOPQRSTUVWXYZ_abcdefghijklmnopqrstuvwxyz"

CharRank(c) ==
  IF \E i \in 1..Len(ALPHABET) : SubSeq(ALPHABET, i, i) = c
  THEN CHOOSE i \in 1..Len(ALPHABET) : SubSeq(ALPHABET, i, i) = c
  ELSE 0

RECURSIVE StrLess(_, _)
StrLess(a, b) ==
  IF Len(b) = 0 THEN FALSE
  ELSE IF Len(a) = 0 THEN TRUE
  ELSE IF SubSeq(a, 1, 1) = SubSeq(b, 1, 1)
       THEN StrLess(SubSeq(a, 2, Len(a)), SubSeq(b, 2, Len(b)))
  ELSE CharRank(SubSeq(a, 1, 1)) < CharRank(SubSeq(b, 1, 1))

\* a < b in an ascending ORDER BY; NULL sorts after every value
ColumnLess(a, b) ==
  IF a = Null THEN FALSE
  ELSE IF b = Null THEN TRUE
  ELSE StrLess(a, b)

\* order: [['brand', 'ASC'], ['name', 'ASC']]
OrderedBefore(x, y) ==
  \/ ColumnLess(x.brand, y.brand)
  \/ x.brand = y.brand /\ ~ColumnLess(y.name, x.name)

\* pattern LIKE text: % matches any run of characters, _ any one character
RECURSIVE Like(_, _)
Like(text, pattern) ==
  IF Len(pattern) = 0 THEN Len(text) = 0
  ELSE IF SubSeq(pattern, 1, 1) = "%" THEN
    \/ Like(text, SubSeq(pattern, 2, Len(pattern)))
    \/ Len(text) > 0 /\ Like(SubSeq(text, 2, Len(text)), pattern)
  ELSE
    /\ Len(text) > 0
    /\ SubSeq(pattern, 1, 1) \in {"_", SubSeq(text, 1, 1)}
    /\ Like(SubSeq(text, 2, Len(text)), SubSeq(pattern, 2, Len(pattern)))

\* column ILIKE pattern; NULL matches nothing
LikeIsEquality(column, pattern) == column # Null /\ ("%" \o column \o "%") = pattern

iLike(column, pattern) == column # Null /\ Like(ToLower(column), ToLower(pattern))

\* the whereClause getAllProducts builds from req.query; Undefined marks a
\* key the clause does not hold
WhereIgnoresCategory(query) ==
  [brand |-> IF ~Falsy(query.brand) /\ query.brand # "all" THEN query.brand ELSE Undefined,
   category |-> Undefined,
   available |-> IF query.available # Undefined /\ query.available # "all"
                 THEN (IF query.available = "true" THEN JTrue ELSE JFalse)
                 ELSE Undefined,
   search |-> IF ~Falsy(query.search) THEN "%" \o query.search \o "%" ELSE Undefined]

WhereAvailableTruthy(query) ==
  [brand |-> IF ~Falsy(query.brand) /\ query.brand # "all" THEN query.brand ELSE Undefined,
   category |-> IF ~Falsy(query.category) /\ query.category # "all" THEN query.category
                ELSE Undefined,
   available |-> IF query.available # Undefined /\ query.available # "all"
                 THEN (IF Falsy(query.available) THEN JFalse ELSE JTrue)
                 ELSE Undefined,
   search |-> IF ~Falsy(query.search) THEN "%" \o query.search \o "%" ELSE Undefined]

whereClause(query) ==
  [brand |-> IF ~Falsy(query.brand) /\ query.brand # "all" THEN query.brand ELSE Undefined,
   category |-> IF ~Falsy(query.category) /\ query.category # "all" THEN query.category
                ELSE Undefined,
   available |-> IF query.available # Undefined /\ query.available # "all"
                 THEN (IF query.available = "true" THEN JTrue ELSE JFalse)
                 ELSE Undefined,
   search |-> IF ~Falsy(query.search) THEN "%" \o query.search \o "%" ELSE Undefined]

\* the row satisfies the WHERE clause
Selected(row, where) ==
  /\ where.brand = Undefined \/ row.brand = where.brand
  /\ where.category = Undefined \/ row.category = where.category
  /\ where.available = Undefined \/ row.available = where.available
  /\ \/ where.search = Undefined
     \/ iLike(row.name, where.search)
     \/ iLike(row.original_name, where.search)
     \/ iLike(row.brand, where.search)
     \/ iLike(row.ean, where.search)

SelectedIds(where) == {i \in Ids : Selected(products[i], where)}

\* Product.count({where})
count(where) == Cardinality(SelectedIds(where))

\* the orders in which ORDER BY brand, name may return the rows S (rows
\* with equal keys come in either order)
Orderings(S) ==
  {f \in [1..Cardinality(S) -> S] :
     /\ \A i, j \in 1..Cardinality(S) : i # j => f[i] # f[j]
     /\ \A i, j \in 1..Cardinality(S) : i < j => OrderedBefore(products[f[i]], products[f[j]])}

\* parseInt(text, 10) of a page or limit parameter: the decimal digits the
\* text starts with
DIGITS == "0123456789"
IsDigit(c) == \E i \in 1..Len(DIGITS) : SubSeq(DIGITS, i, i) = c
DigitValue(c) == (CHOOSE i \in 1..Len(DIGITS) : SubSeq(DIGITS, i, i) = c) - 1

RECURSIVE ParseDigits(_, _)
ParseDigits(text, acc) ==
  IF Len(text) = 0 \/ ~IsDigit(SubSeq(text, 1, 1)) THEN acc
  ELSE ParseDigits(SubSeq(text, 2, Len(text)), 10 * acc + DigitValue(SubSeq(text, 1, 1)))

IsNaN(text) == Len(text) = 0 \/ ~IsDigit(SubSeq(text, 1, 1))
parseInt(text) == ParseDigits(text, 0)

\* both page and limit are supplied
Paginated(query) == ~Falsy(query.page) /\ ~Falsy(query.limit)

\* the part of a sequence that LIMIT limit OFFSET offset keeps
WindowFromStart(seq, offset, limit) == SubSeq(seq, 1, IF limit < Len(seq) THEN limit ELSE Len(seq))

Window(seq, offset, limit) ==
  SubSeq(seq, offset + 1, IF offset + limit < Len(seq) THEN offset + limit ELSE Len(seq))

CeilDiv(a, b) == (a + b - 1) \div b

\* the database rejects the statement: ILIKE is an operator of postgres
\* only, the other dialects are handed it as written
queryFails(where) == where.search # Undefined /\ env.DB_DIALECT # "postgres"

\* GET /api/products: requireAuth, then await Product.count({where})
getAllProductsCount(r, raw, query) ==
  /\ pend[r].op = "idle"
  /\ IF ~Gate(raw).next THEN
       /\ lastResp' = Rejection("getAllProducts", raw)
       /\ UNCHANGED pend
     ELSE IF queryFails(whereClause(query)) THEN
       /\ lastResp' = [Handled("getAllProducts", cookieParser(raw), 500, FALSE,
                               "Error al obtener productos")
                         EXCEPT !.query = query, !.error = "SequelizeDatabaseError"]
       /\ UNCHANGED pend
     ELSE
       /\ pend' = [pend EXCEPT ![r] =
                     [Idle EXCEPT !.op = "getAllProducts", !.cookie = cookieParser(raw),
                                  !.query = query, !.total = count(whereClause(query))]]
       /\ UNCHANGED lastResp
  /\ UNCHANGED <<authVars, products, nextId>>

\* ... then await Product.findAll(queryOptions), the image URLs of the rows
\* found, and the response
getAllProductsFind(r) ==
  /\ pend[r].op = "getAllProducts"
  /\ LET query == pend[r].query
         base == [Handled("getAllProducts", pend[r].cookie, 0, FALSE, Undefined)
                    EXCEPT !.query = query]
         pageNumber == parseInt(query.page)
         limitNumber == parseInt(query.limit)
         offset == (pageNumber - 1) * limitNumber
     IN IF Paginated(query) /\ (IsNaN(query.page) \/ IsNaN(query.limit) \/ offset < 0) THEN
          lastResp' = [base EXCEPT !.status = 500, !.message = "Error al obtener productos",
                                   !.error = "SequelizeDatabaseError"]
        ELSE
          \E order \in Orderings(SelectedIds(whereClause(query))) :
            LET ids == IF Paginated(query) THEN Window(order, offset, limitNumber) ELSE order
            IN \E s3ok \in [1..Len(ids) -> BOOLEAN] :
                 lastResp' =
                   [base EXCEPT
                      !.status = 200, !.success = TRUE,
                      !.items = [k \in 1..Len(ids) |-> products[ids[k]]],
                      !.urls = [k \in 1..Len(ids) |->
                                  getPresignedImageUrl(imageToUse(products[ids[k]]), s3ok[k])],
                      !.count = Len(ids),
                      !.pagination =
                        IF Paginated(query)
                        THEN [present |-> TRUE, page |-> pageNumber, limit |-> limitNumber,
                              total |-> pend[r].total,
                              totalPages |-> IF limitNumber = 0 THEN -1
                                             ELSE CeilDiv(pend[r].total, limitNumber)]
                        ELSE NoPagination]
  /\ pend' = [pend EXCEPT ![r] = Idle]
  /\ UNCHANGED <<authVars, products, nextId>>

\* The same handler with the awaits of lines 56-67 as separate steps:
\* Product.findAll, after which products.map(async ...) has started the
\* image lookup of every row found; each lookup settling on its own; and
\* the response once Promise.all has every result.
Pending == "<pending>"

getAllProductsFindAll(r) ==
  /\ pend[r].op = "getAllProducts"
  /\ LET query == pend[r].query
         pageNumber == parseInt(query.page)
         limitNumber == parseInt(query.limit)
         offset == (pageNumber - 1) * limitNumber
     IN IF Paginated(query) /\ (IsNaN(query.page) \/ IsNaN(query.limit) \/ offset < 0) THEN
          /\ lastResp' = [Handled("getAllProducts", pend[r].cookie, 500, FALSE,
                                  "Error al obtener productos")
                            EXCEPT !.query = query, !.error = "SequelizeDatabaseError"]
          /\ pend' = [pend EXCEPT ![r] = Idle]
        ELSE
          \E order \in Orderings(SelectedIds(whereClause(query))) :
            LET ids == IF Paginated(query) THEN Window(order, offset, limitNumber) ELSE order
            IN /\ pend' = [pend EXCEPT ![r].op = "getAllProducts.images",
                                       ![r].found = [k \in 1..Len(ids) |-> products[ids[k]]],
                                       ![r].urls = [k \in 1..Len(ids) |-> Pending]]
               /\ UNCHANGED lastResp
  /\ UNCHANGED <<authVars, products, nextId>>

\* the lookup of the k-th row found settles: getPresignedImageUrl resolves
\* to the signed URL, or to null when it returned early or caught an error
imageUrlSettles(r, k, s3ok) ==
  /\ pend[r].op = "getAllProducts.images"
  /\ k \in 1..Len(pend[r].urls)
  /\ pend[r].urls[k] = Pending
  /\ pend' = [pend EXCEPT ![r].urls[k] =
                 getPresignedImageUrl(imageToUse(pend[r].found[k]), s3ok)]
  /\ UNCHANGED <<authVars, products, nextId, lastResp>>

\* the response of lines 69-89 from the rows found and the URLs resolved
listResponse(r) ==
  LET query == pend[r].query
      limitNumber == parseInt(query.limit)
  IN [Handled("getAllProducts", pend[r].cookie, 200, TRUE, Undefined) EXCEPT
        !.query = query,
        !.items = pend[r].found,
        !.urls = pend[r].urls,
        !.count = Len(pend[r].found),
        !.pagination =
          IF Paginated(query)
          THEN [present |-> TRUE, page |-> parseInt(query.page), limit |-> limitNumber,
                total |-> pend[r].total,
                totalPages |-> IF limitNumber = 0 THEN -1
                               ELSE CeilDiv(pend[r].total, limitNumber)]
          ELSE NoPagination]

RespondsWithoutWaiting(r) ==
  /\ pend[r].op = "getAllProducts.images"
  /\ lastResp' = listResponse(r)
  /\ pend' = [pend EXCEPT ![r] = Idle]
  /\ UNCHANGED <<authVars, products, nextId>>

getAllProductsRespond(r) ==
  /\ pend[r].op = "getAllProducts.images"
  /\ \A k \in 1..Len(pend[r].urls) : pend[r].urls[k] # Pending
  /\ lastResp' = listResponse(r)
  /\ pend' = [pend EXCEPT ![r] = Idle]
  /\ UNCHANGED <<authVars, products, nextId>>

\* the distinct values of a column in ascending order
DistinctAscending(column) ==
  LET values == {products[i][column] : i \in Ids}
  IN CHOOSE f \in [1..Cardinality(values) -> values] :
       \A i, j \in 1..Cardinality(values) : i < j => ColumnLess(f[i], f[j])

RECURSIVE FilterTruthy(_)
FilterTruthy(seq) ==
  IF Len(seq) = 0 THEN <<>>
  ELSE IF Falsy(Head(seq)) THEN FilterTruthy(Tail(seq))
  ELSE <<Head(seq)>> \o FilterTruthy(Tail(seq))

\* GET /api/brands
getBrands(r, raw) ==
  /\ pend[r].op = "idle"
  /\ lastResp' =
       IF ~Gate(raw).next THEN Rejection("getBrands", raw)
       ELSE [Handled("getBrands", cookieParser(raw), 200, TRUE, Undefined)
               EXCEPT !.items = DistinctAscending("brand")]
  /\ UNCHANGED <<authVars, storeVars>>

\* GET /api/categories
getCategories(r, raw) ==
  /\ pend[r].op = "idle"
  /\ lastResp' =
       IF ~Gate(raw).next THEN Rejection("getCategories", raw)
       ELSE [Handled("getCategories", cookieParser(raw), 200, TRUE, Undefined)
               EXCEPT !.items = FilterTruthy(DistinctAscending("category"))]
  /\ UNCHANGED <<authVars, storeVars>>

(***************************************************************************)
(* Inputs and specifications                                               *)
(***************************************************************************)
NodeEnvs == {Undefined, "development", "production"}
FrontendUrls ==
  {Undefined, "https://lacosta-front.onrender.com", "https://lacosta.onrender.com",
   "lacosta.onrender.com", "http://localhost:5173"}
BackendUrls ==
  {Undefined, "https://lacosta-back.onrender.com", "https://LaCosta.onrender.com/api"}
Hashes == {Undefined, "", BcryptHash(ACCESS_CODE)}
S3_BUCKET_NAME == "lacosta-images"

AccessCodeInputs == {Undefined, "", ACCESS_CODE, "wrong-code", JsonObject}
RawCookies == {Undefined, "", ACCESS_CODE, "wrong-code", "j:{}"}

\* the cookie the browser attaches, or one a client makes up
SentCookies ==
  {[raw |-> BrowserCookie, fromJar |-> TRUE]}
    \cup {[raw |-> c, fromJar |-> FALSE] : c \in RawCookies}

SampleRow ==
  [id |-> 1, ean |-> "7790001", name |-> "Yerba", original_name |-> Null,
   brand |-> "Taragui", category |-> "Almacen", image_filename |-> Null,
   available |-> JTrue, comments |-> Null]

\* ---- login and logout under every cookie-relevant environment ----
CookieInit ==
  /\ env \in [NODE_ENV : NodeEnvs, FRONTEND_URL : FrontendUrls, BACKEND_URL : BackendUrls,
              ACCESS_CODE_HASH : {BcryptHash(ACCESS_CODE)}, S3_BUCKET : {S3_BUCKET_NAME},
              DB_DIALECT : {CONFIGURED_DIALECT}]
  /\ controller \in Controllers
  /\ jar = NoCookie
  /\ now = 0
  /\ lastResp = NoResp
  /\ products = [i \in {1} |-> SampleRow]
  /\ nextId = 2
  /\ pend = [r \in Clients |-> Idle]
  /\ proc = Running

CookieNext ==
  \/ \E access_code \in AccessCodeInputs : verifyAccessCode(access_code)
  \/ \E major \in ExpressMajor : logout(major)
  \/ \E c \in SentCookies : checkAuth(c.raw, c.fromJar)

CookieSpec == CookieInit /\ [][CookieNext]_vars

\* ---- the auth routes and the gate in front of a fixed catalogue ----
AuthInit ==
  /\ env \in [NODE_ENV : NodeEnvs, FRONTEND_URL : {Undefined}, BACKEND_URL : {Undefined},
              ACCESS_CODE_HASH : Hashes, S3_BUCKET : {S3_BUCKET_NAME},
              DB_DIALECT : {CONFIGURED_DIALECT}]
  /\ controller \in Controllers
  /\ jar = NoCookie
  /\ now = 0
  /\ lastResp = NoResp
  /\ products = [i \in {1} |-> SampleRow]
  /\ nextId = 2
  /\ pend = [r \in Clients |-> Idle]
  /\ proc = Running

AuthNext ==
  \/ \E access_code \in AccessCodeInputs : verifyAccessCode(access_code)
  \/ \E major \in ExpressMajor : logout(major)
  \/ \E c \in SentCookies : checkAuth(c.raw, c.fromJar)
  \/ \E c \in SentCookies, id \in 1..2, s3ok \in BOOLEAN : getProductById(1, c.raw, id, s3ok)
  \/ \E c \in SentCookies : getBrands(1, c.raw)
  \/ Tick

AuthSpec == AuthInit /\ [][AuthNext]_vars

\* ---- the product routes, one request at a time ----
CreateBodies ==
  {[NoBody EXCEPT !.ean = "7790001", !.name = "Yerba", !.brand = "Taragui"],
   [NoBody EXCEPT !.ean = "7790002", !.name = "Mate", !.brand = "Taragui",
                  !.available = JFalse],
   [NoBody EXCEPT !.ean = "", !.name = "Te", !.brand = "Virginia"],
   [NoBody EXCEPT !.ean = "7790002", !.brand = "Taragui"]}

UpdateBodies ==
  {[NoBody EXCEPT !.ean = "7790001"],
   [NoBody EXCEPT !.ean = "7790002", !.name = "Mate"],
   [NoBody EXCEPT !.id = "2", !.name = "Yerba"],
   [NoBody EXCEPT !.available = JFalse, !.comments = "agotado"],
   [NoBody EXCEPT !.ean = ""],
   NoBody}

CommentInputs == {Undefined, "", "agotado"}
RequestIds == 1..(MaxProducts + 1)

Init ==
  /\ env \in [NODE_ENV : {"production"}, FRONTEND_URL : {Undefined}, BACKEND_URL : {Undefined},
              ACCESS_CODE_HASH : {BcryptHash(ACCESS_CODE)},
              S3_BUCKET : {S3_BUCKET_NAME}, DB_DIALECT : Dialects]
  /\ controller = "config"
  /\ jar = NoCookie
  /\ now = 0
  /\ lastResp = NoResp
  /\ products = <<>>
  /\ nextId = 1
  /\ pend = [r \in Clients |-> Idle]
  /\ proc = Running

Next ==
  \/ \E productData \in CreateBodies, s3ok \in BOOLEAN, burnId \in BOOLEAN :
       createProduct(1, ACCESS_CODE, productData, s3ok, burnId)
  \/ \E id \in RequestIds, s3ok \in BOOLEAN : getProductById(1, ACCESS_CODE, id, s3ok)
  \/ \E id \in RequestIds, productData \in UpdateBodies :
       updateProductLoad(1, ACCESS_CODE, id, productData)
  \/ \E s3ok \in BOOLEAN : updateProductSave(1, s3ok)
  \/ \E id \in RequestIds : toggleAvailabilityLoad(1, ACCESS_CODE, id)
  \/ \E s3ok \in BOOLEAN : toggleAvailabilitySave(1, s3ok)
  \/ \E id \in RequestIds, comments \in CommentInputs :
       updateCommentsLoad(1, ACCESS_CODE, id, comments)
  \/ \E s3ok \in BOOLEAN : updateCommentsSave(1, s3ok)
  \/ \E id \in RequestIds : deleteProductLoad(1, ACCESS_CODE, id)
  \/ deleteProductDestroy(1)

Spec == Init /\ [][Next]_vars

\* ---- the writing routes, two requests in flight ----
RaceCreateBodies ==
  {[NoBody EXCEPT !.ean = "7790001", !.name = "Yerba", !.brand = "Taragui"],
   [NoBody EXCEPT !.ean = "7790002", !.name = "Mate", !.brand = "Taragui"]}

RaceUpdateBodies ==
  {[NoBody EXCEPT !.ean = "7790001"],
   [NoBody EXCEPT !.ean = "7790002"]}

RaceNext ==
  \E r \in Clients :
    \/ \E productData \in RaceCreateBodies, burnId \in BOOLEAN :
         createProduct(r, ACCESS_CODE, productData, TRUE, burnId)
    \/ \E id \in 1..MaxProducts, productData \in RaceUpdateBodies :
         updateProductLoad(r, ACCESS_CODE, id, productData)
    \/ updateProductSave(r, TRUE)
    \/ \E id \in 1..MaxProducts : toggleAvailabilityLoad(r, ACCESS_CODE, id)
    \/ toggleAvailabilitySave(r, TRUE)
    \/ \E id \in 1..MaxProducts : deleteProductLoad(r, ACCESS_CODE, id)
    \/ deleteProductDestroy(r)

RaceInit == Init /\ env.DB_DIALECT = CONFIGURED_DIALECT

RaceSpec == RaceInit /\ [][RaceNext]_vars

\* ---- the id-addressed routes over products that come and go ----
NotFoundNext ==
  \/ \E productData \in RaceCreateBodies : createProduct(1, ACCESS_CODE, productData, TRUE, FALSE)
  \/ \E id \in RequestIds, s3ok \in BOOLEAN : getProductById(1, ACCESS_CODE, id, s3ok)
  \/ \E id \in RequestIds, productData \in RaceUpdateBodies :
       updateProductLoad(1, ACCESS_CODE, id, productData)
  \/ updateProductSave(1, TRUE)
  \/ \E id \in RequestIds : toggleAvailabilityLoad(1, ACCESS_CODE, id)
  \/ toggleAvailabilitySave(1, TRUE)
  \/ \E id \in RequestIds, comments \in CommentInputs :
       updateCommentsLoad(1, ACCESS_CODE, id, comments)
  \/ updateCommentsSave(1, TRUE)
  \/ \E id \in RequestIds : deleteProductLoad(1, ACCESS_CODE, id)
  \/ deleteProductDestroy(1)

NotFoundSpec == RaceInit /\ [][NotFoundNext]_vars

\* ---- the image lookups of the list and item responses ----
ImageCreateBodies ==
  {[NoBody EXCEPT !.ean = "7790001", !.name = "Yerba", !.brand = "Taragui",
                  !.image_filename = "yerba.webp"],
   [NoBody EXCEPT !.ean = "7790002", !.name = "Mate", !.brand = "Taragui"]}

ImageQueries == {NoQuery, [NoQuery EXCEPT !.page = "1", !.limit = "1"]}

ImageInit ==
  /\ env \in [NODE_ENV : {"production"}, FRONTEND_URL : {Undefined}, BACKEND_URL : {Undefined},
              ACCESS_CODE_HASH : {BcryptHash(ACCESS_CODE)},
              S3_BUCKET : {S3_BUCKET_NAME, Undefined}, DB_DIALECT : {CONFIGURED_DIALECT}]
  /\ controller = "config"
  /\ jar = NoCookie
  /\ now = 0
  /\ lastResp = NoResp
  /\ products = <<>>
  /\ nextId = 1
  /\ pend = [r \in Clients |-> Idle]
  /\ proc = Running

ImageNext ==
  \/ \E productData \in ImageCreateBodies, s3ok \in BOOLEAN :
       createProduct(1, ACCESS_CODE, productData, s3ok, FALSE)
  \/ \E id \in 1..MaxProducts, s3ok \in BOOLEAN : getProductById(1, ACCESS_CODE, id, s3ok)
  \/ \E query \in ImageQueries : getAllProductsCount(1, ACCESS_CODE, query)
  \/ getAllProductsFindAll(1)
  \/ \E k \in 1..MaxProducts, s3ok \in BOOLEAN : imageUrlSettles(1, k, s3ok)
  \/ getAllProductsRespond(1)

ImageSpec == ImageInit /\ [][ImageNext]_vars

\* ---- the writes that touch available ----
AvailableCreateBodies ==
  {[NoBody EXCEPT !.ean = "7790001", !.name = "Yerba", !.brand = "Taragui"],
   [NoBody EXCEPT !.ean = "7790002", !.name = "Mate", !.brand = "Taragui",
                  !.available = JFalse],
   [NoBody EXCEPT !.ean = "7790002", !.name = "Mate", !.brand = "Taragui",
                  !.available = Null]}

AvailableUpdateBodies ==
  {[NoBody EXCEPT !.available = Null],
   [NoBody EXCEPT !.available = JFalse],
   [NoBody EXCEPT !.available = JTrue, !.name = "Mate"],
   [NoBody EXCEPT !.comments = "agotado"]}

AvailableNext ==
  \/ \E productData \in AvailableCreateBodies :
       createProduct(1, ACCESS_CODE, productData, TRUE, FALSE)
  \/ \E id \in 1..MaxProducts, productData \in AvailableUpdateBodies :
       updateProductLoad(1, ACCESS_CODE, id, productData)
  \/ updateProductSave(1, TRUE)
  \/ \E id \in 1..MaxProducts : toggleAvailabilityLoad(1, ACCESS_CODE, id)
  \/ toggleAvailabilitySave(1, TRUE)

AvailableSpec == RaceInit /\ [][AvailableNext]_vars

\* ---- failing store calls under every NODE_ENV ----
ErrorQueries ==
  {NoQuery, [NoQuery EXCEPT !.search = "yerba"], [NoQuery EXCEPT !.page = "0", !.limit = "1"]}

ErrorInit ==
  /\ env \in [NODE_ENV : NodeEnvs, FRONTEND_URL : {Undefined}, BACKEND_URL : {Undefined},
              ACCESS_CODE_HASH : {BcryptHash(ACCESS_CODE)},
              S3_BUCKET : {S3_BUCKET_NAME}, DB_DIALECT : {CONFIGURED_DIALECT}]
  /\ controller = "config"
  /\ jar = NoCookie
  /\ now = 0
  /\ lastResp = NoResp
  /\ products = <<>>
  /\ nextId = 1
  /\ pend = [r \in Clients |-> Idle]
  /\ proc = Running

ErrorNext ==
  \/ \E productData \in AvailableCreateBodies :
       createProduct(1, ACCESS_CODE, productData, TRUE, FALSE)
  \/ \E id \in 1..MaxProducts, productData \in AvailableUpdateBodies :
       updateProductLoad(1, ACCESS_CODE, id, productData)
  \/ updateProductSave(1, TRUE)
  \/ \E query \in ErrorQueries : getAllProductsCount(1, ACCESS_CODE, query)
  \/ getAllProductsFind(1)
  \/ malformedJsonBody

ErrorSpec == ErrorInit /\ [][ErrorNext]_vars

\* ---- writes and reads of a product racing with its removal ----
\* client 1 creates, deletes and reads while client 2 updates, toggles and
\* comments
RemovedNext ==
  \/ \E productData \in RaceCreateBodies :
       createProduct(1, ACCESS_CODE, productData, TRUE, FALSE)
  \/ \E id \in 1..MaxProducts : deleteProductLoad(1, ACCESS_CODE, id)
  \/ deleteProductDestroy(1)
  \/ \E id \in 1..MaxProducts : getProductById(1, ACCESS_CODE, id, TRUE)
  \/ getAllProductsCount(1, ACCESS_CODE, NoQuery)
  \/ getAllProductsFind(1)
  \/ \E id \in 1..MaxProducts, productData \in RaceUpdateBodies :
       updateProductLoad(2, ACCESS_CODE, id, productData)
  \/ updateProductSave(2, TRUE)
  \/ \E id \in 1..MaxProducts : toggleAvailabilityLoad(2, ACCESS_CODE, id)
  \/ toggleAvailabilitySave(2, TRUE)
  \/ \E id \in 1..MaxProducts : updateCommentsLoad(2, ACCESS_CODE, id, "agotado")
  \/ updateCommentsSave(2, TRUE)

RemovedSpec == RaceInit /\ [][RemovedNext]_vars

\* ---- requests in flight when a shutdown signal arrives ----
ShutdownNext ==
  \/ /\ proc.state = "running"
     /\ \E r \in Clients :
          \/ \E productData \in RaceCreateBodies :
               createProduct(r, ACCESS_CODE, productData, TRUE, FALSE)
          \/ \E id \in 1..MaxProducts : toggleAvailabilityLoad(r, ACCESS_CODE, id)
          \/ toggleAvailabilitySave(r, TRUE)
          \/ getAllProductsCount(r, ACCESS_CODE, NoQuery)
          \/ getAllProductsFindAll(r)
  \/ /\ proc.state # "exited"
     /\ \E r \in Clients :
          \/ \E k \in 1..MaxProducts : imageUrlSettles(r, k, TRUE)
          \/ getAllProductsRespond(r)
  \/ \E sig \in Signals : shutdownSignal(sig)
  \/ \E r \in Clients : storeCallAfterClose(r)
  \/ shutdownExit

ShutdownSpec == RaceInit /\ [][ShutdownNext]_vars

\* ---- every protected route behind the gate, any cookie ----
GateCreateBody == [NoBody EXCEPT !.ean = "7790001", !.name = "Yerba", !.brand = "Taragui"]
GateUpdateBody == [NoBody EXCEPT !.name = "Mate"]
GateQuery == NoQuery

GateInit ==
  /\ env \in [NODE_ENV : {"production"}, FRONTEND_URL : {Undefined}, BACKEND_URL : {Undefined},
              ACCESS_CODE_HASH : Hashes, S3_BUCKET : {S3_BUCKET_NAME},
              DB_DIALECT : {CONFIGURED_DIALECT}]
  /\ controller = "config"
  /\ jar = NoCookie
  /\ now = 0
  /\ lastResp = NoResp
  /\ products = <<>>
  /\ nextId = 1
  /\ pend = [r \in Clients |-> Idle]
  /\ proc = Running

GateNext ==
  \/ \E raw \in RawCookies : getAllProductsCount(1, raw, GateQuery)
  \/ getAllProductsFind(1)
  \/ \E raw \in RawCookies, id \in 1..MaxProducts : getProductById(1, raw, id, TRUE)
  \/ \E raw \in RawCookies : createProduct(1, raw, GateCreateBody, TRUE, FALSE)
  \/ \E raw \in RawCookies, id \in 1..MaxProducts : updateProductLoad(1, raw, id, GateUpdateBody)
  \/ updateProductSave(1, TRUE)
  \/ \E raw \in RawCookies, id \in 1..MaxProducts : deleteProductLoad(1, raw, id)
  \/ deleteProductDestroy(1)
  \/ \E raw \in RawCookies, id \in 1..MaxProducts : toggleAvailabilityLoad(1, raw, id)
  \/ toggleAvailabilitySave(1, TRUE)
  \/ \E raw \in RawCookies, id \in 1..MaxProducts : updateCommentsLoad(1, raw, id, "agotado")
  \/ updateCommentsSave(1, TRUE)
  \/ \E raw \in RawCookies : getBrands(1, raw)
  \/ \E raw \in RawCookies : getCategories(1, raw)

GateSpec == GateInit /\ [][GateNext]_vars

\* ---- paths no route matches, among requests that routes do match ----
RouteNext ==
  \/ \E raw \in RawCookies, underApi \in BOOLEAN : unknownRoute(raw, underApi)
  \/ \E raw \in RawCookies : createProduct(1, raw, GateCreateBody, TRUE, FALSE)
  \/ \E raw \in RawCookies, id \in 1..MaxProducts : getProductById(1, raw, id, TRUE)
  \/ \E raw \in RawCookies : checkAuth(raw, FALSE)
  \/ \E raw \in RawCookies : getBrands(1, raw)
  \/ \E raw \in RawCookies, id \in 1..MaxProducts : deleteProductLoad(1, raw, id)
  \/ deleteProductDestroy(1)

RouteSpec == GateInit /\ [][RouteNext]_vars

\* ---- the list route over a growing catalogue ----
ListCreateBodies ==
  {[NoBody EXCEPT !.ean = "7790001", !.name = "Yerba", !.brand = "Taragui",
                  !.category = "Almacen"],
   [NoBody EXCEPT !.ean = "7790002", !.name = "Mate", !.original_name = "MATE-COCIDO",
                  !.brand = "Taragui", !.available = JFalse],
   [NoBody EXCEPT !.ean = "7790003", !.name = "Te", !.brand = "Virginia",
                  !.category = "Infusiones"]}

ListQueries ==
  {NoQuery,
   [NoQuery EXCEPT !.brand = "Taragui"],
   [NoQuery EXCEPT !.brand = "all", !.category = "Almacen"],
   [NoQuery EXCEPT !.available = "false"],
   [NoQuery EXCEPT !.available = "true"],
   [NoQuery EXCEPT !.available = "all"],
   [NoQuery EXCEPT !.brand = "Taragui", !.available = "true"],
   [NoQuery EXCEPT !.search = "yerba"],
   [NoQuery EXCEPT !.search = "TARA", !.category = "all"],
   [NoQuery EXCEPT !.search = "779", !.brand = "Virginia"],
   [NoQuery EXCEPT !.search = "cocido", !.available = "all"],
   [NoQuery EXCEPT !.search = "_"],
   [NoQuery EXCEPT !.search = "%"],
   [NoQuery EXCEPT !.page = "1", !.limit = "1"],
   [NoQuery EXCEPT !.page = "2", !.limit = "1"],
   [NoQuery EXCEPT !.page = "1", !.limit = "2"],
   [NoQuery EXCEPT !.page = "2", !.limit = "2", !.brand = "Taragui"],
   [NoQuery EXCEPT !.page = "3", !.limit = "10"],
   [NoQuery EXCEPT !.page = "0", !.limit = "1"],
   [NoQuery EXCEPT !.page = "uno", !.limit = "1"],
   [NoQuery EXCEPT !.page = "1", !.limit = "0"],
   [NoQuery EXCEPT !.page = "2"],
   [NoQuery EXCEPT !.limit = "1", !.available = "true"]}

ListNext ==
  \/ \E productData \in ListCreateBodies : createProduct(1, ACCESS_CODE, productData, TRUE, FALSE)
  \/ \E query \in ListQueries : getAllProductsCount(1, ACCESS_CODE, query)
  \/ getAllProductsFind(1)

ListSpec == Init /\ [][ListNext]_vars

(***************************************************************************)
(* Properties                                                              *)
(***************************************************************************)
ProtectedRoutes ==
  {"getAllProducts", "getProductById", "createProduct", "updateProduct", "deleteProduct",
   "toggleAvailability", "updateComments", "getBrands", "getCategories"}

HashConfigured == env.ACCESS_CODE_HASH \notin {Undefined, ""}

\* the value is the access code the configured hash was made from
MatchesHash(cookie) ==
  /\ cookie \notin {Undefined, Null, JsonObject, JTrue, JFalse}
  /\ env.ACCESS_CODE_HASH = BcryptHash(cookie)

\* no handler is running, and none has answered, for a request whose cookie
\* does not match the hash
NoUnauthorizedHandler ==
  /\ \A r \in Clients : pend[r].op # "idle" => MatchesHash(pend[r].cookie)
  /\ lastResp.handler # "none" => MatchesHash(lastResp.cookie)

\* C1 as stated: on a protected route, with the hash configured, a request
\* without cookie gets 401, one whose cookie does not match the hash gets
\* 401, one whose cookie matches reaches the handler; and no handler runs for
\* a request the gate did not authorize.
C1_AsStated ==
  /\ NoUnauthorizedHandler
  /\ (lastResp.route \in ProtectedRoutes /\ HashConfigured) =>
       /\ lastResp.cookie = Undefined => (lastResp.status = 401 /\ lastResp.handler = "none")
       /\ (lastResp.cookie # Undefined /\ ~MatchesHash(lastResp.cookie)) =>
            (lastResp.status = 401 /\ lastResp.handler = "none")
       /\ MatchesHash(lastResp.cookie) => lastResp.handler = lastResp.route

\* C1 amended: as C1, except that a cookie which cookie-parser decodes to a
\* non-string value makes the comparison fail with an error and is rejected
\* with 500 instead of 401; a string cookie that does not match gets 401.
C1_GateDecides ==
  /\ NoUnauthorizedHandler
  /\ (lastResp.route \in ProtectedRoutes /\ HashConfigured) =>
       /\ lastResp.cookie = Undefined => (lastResp.status = 401 /\ lastResp.handler = "none")
       /\ (lastResp.cookie \notin {Undefined, JsonObject} /\ ~MatchesHash(lastResp.cookie)) =>
            (lastResp.status = 401 /\ lastResp.handler = "none")
       /\ lastResp.cookie = JsonObject => (lastResp.status = 500 /\ lastResp.handler = "none")
       /\ MatchesHash(lastResp.cookie) => lastResp.handler = lastResp.route

\* a request with a wrong cookie is turned away while the catalogue holds a
\* product that an authorized request created
C1_Witness ==
  /\ lastResp.route = "updateProduct"
  /\ lastResp.cookie = "wrong-code"
  /\ lastResp.status = 401
  /\ Ids # {}

\* C2: while the stored access-code hash is absent, no login sets a cookie,
\* the gate lets no request through to a handler, check never reports
\* authenticated, and a login or gated request that reaches the verification
\* is refused with the configuration error.
C2_FailsClosed ==
  ~HashConfigured =>
    /\ ~lastResp.setCookie.present \/ lastResp.route # "login"
    /\ ~(jar.present /\ jar.value # "")
    /\ lastResp.handler = "none"
    /\ \A r \in Clients : pend[r].op = "idle"
    /\ lastResp.authenticated # JTrue
    /\ (lastResp.route = "login" /\ lastResp.cookie \notin {Undefined, ""}) =>
         (lastResp.status = 500 /\ lastResp.message = MSG_CONFIG)
    /\ (lastResp.route \in ProtectedRoutes /\ lastResp.cookie \notin {Undefined, ""}) =>
         (lastResp.status = 500 /\ lastResp.message = MSG_CONFIG)

\* the right access code is submitted to a deployment without hash and is
\* refused with the configuration error
C2_Witness ==
  /\ ~HashConfigured
  /\ lastResp.route = "login"
  /\ lastResp.cookie = ACCESS_CODE
  /\ lastResp.status = 500

\* the jar's cookie is the one a successful login set and it has not expired
HoldsValidCookie ==
  /\ jar.present
  /\ jar.value = ACCESS_CODE
  /\ HashConfigured /\ env.ACCESS_CODE_HASH = BcryptHash(jar.value)
  /\ now < jar.expires
  /\ jar.expires <= now + 24

C3_LoginSetsCookie ==
  lastResp.route = "login" =>
    /\ lastResp.setCookie.present <=>
         (lastResp.cookie = ACCESS_CODE /\ HashConfigured /\ lastResp.status = 200)
    /\ lastResp.setCookie.present =>
         /\ lastResp.setCookie.maxAge = 86400000
         /\ lastResp.setCookie.value = lastResp.cookie

C3_LogoutClears ==
  lastResp.route = "logout" =>
    /\ lastResp.setCookie.present /\ lastResp.setCookie.value = ""
    /\ ~jar.present \/ jar.value = ""

\* C3: a login with the correct code sets auth_session with maxAge 24 h and
\* a login with any other code sets no cookie; logout leaves the browser
\* without a session value; and a check on the browser's cookie reports
\* authenticated only when the jar holds the unexpired cookie of a
\* successful login.
C3_SessionLifecycle ==
  [][ /\ C3_LoginSetsCookie'
      /\ C3_LogoutClears'
      /\ (now' = now /\ lastResp'.route = "check" /\ lastResp'.fromJar
            /\ lastResp'.authenticated = JTrue) => HoldsValidCookie ]_vars

\* the browser logged in, and a later check on its cookie says authenticated
C3_Witness ==
  /\ lastResp.route = "check"
  /\ lastResp.fromJar
  /\ lastResp.authenticated = JTrue
  /\ HoldsValidCookie
  /\ now > 0

\* the Set-Cookie of a login issued by the getCookieConfig based controller
ConfigLoginCookie ==
  controller = "config" /\ lastResp.route = "login" /\ lastResp.setCookie.present

\* the hostnames of the two configured URLs differ
HostnamesDiffer == getDomain(frontendUrlOf(env)) # getDomain(backendUrlOf(env))

MentionsLocalhost ==
  \/ Includes(frontendUrlOf(env), "localhost")
  \/ Includes(backendUrlOf(env), "localhost")

CookieAttributes(c) == <<c.httpOnly, c.secure, c.sameSite, c.path>>

\* C6: the Set-Cookie with which logout clears auth_session carries the same
\* httpOnly, secure, sameSite and path as the cookie a login stored in the
\* browser.
C6_LogoutMatchesLogin ==
  [][ (lastResp'.route = "logout" /\ jar.present /\ jar.value = ACCESS_CODE) =>
        CookieAttributes(lastResp'.setCookie) = CookieAttributes(jar) ]_vars

\* ---- C4 ----
\* no two rows of a table share an ean
EanUnique(table) ==
  \A i, j \in DOMAIN table : i # j => table[i].ean # table[j].ean

\* some stored row holds this ean
EanStored(ean) == \E i \in Ids : products[i].ean = ean

\* the update in flight for r asks for an ean that a row other than its
\* target holds
WouldDuplicate(r) ==
  /\ pend[r].body.ean # Undefined
  /\ \E i \in Ids : i # pend[r].id /\ products[i].ean = pend[r].body.ean

DuplicateEanAnswer(resp) ==
  resp.status = 400 /\ resp.success = FALSE /\ resp.message = MSG_DUPLICATE_EAN

\* C4: with creates, updates, toggles and deletes of two clients interleaved,
\* no two stored products ever share an ean; a create whose ean is stored is
\* answered 400 with the duplicate-EAN message and leaves the rows as they
\* were, a create whose ean is free is answered 201 and adds exactly one row
\* holding it (so of two creates with the same ean exactly one succeeds);
\* an update that would duplicate an ean, and every request answered with
\* the duplicate-EAN message, leaves the rows as they were
C4_EanUnique ==
  [][ /\ EanUnique(products')
      /\ \A r \in Clients, productData \in RaceCreateBodies, burnId \in BOOLEAN :
           createProduct(r, ACCESS_CODE, productData, TRUE, burnId) =>
             IF EanStored(productData.ean)
             THEN DuplicateEanAnswer(lastResp') /\ products' = products
             ELSE /\ lastResp'.status = 201
                  /\ DOMAIN products' = Ids \cup {lastResp'.id}
                  /\ lastResp'.id \notin Ids
                  /\ products'[lastResp'.id].ean = productData.ean
                  /\ \A i \in Ids : products'[i] = products[i]
      /\ \A r \in Clients :
           updateProductSave(r, TRUE) =>
             /\ WouldDuplicate(r) => products' = products
             /\ DuplicateEanAnswer(lastResp') => products' = products /\ WouldDuplicate(r)
    ]_vars

\* C4 witness: a create was turned away with the duplicate-EAN message while
\* the row holding that ean is stored and the other client is in the middle
\* of an update asking for the same ean
C4_Witness ==
  /\ lastResp.route = "createProduct"
  /\ DuplicateEanAnswer(lastResp)
  /\ EanStored(lastResp.body.ean)
  /\ \E r \in Clients : pend[r].op = "updateProduct" /\ pend[r].body.ean = lastResp.body.ean

\* ---- C7 ----
\* the last response is a successful create and this step is the getById
\* of the id it returned
ReadsBackCreated(id, s3ok) ==
  /\ lastResp.route = "createProduct"
  /\ lastResp.status = 201
  /\ id = lastResp.data.id
  /\ getProductById(1, ACCESS_CODE, id, s3ok)

\* C7 as stated: a getById right after a successful create answers 200 with
\* the very field values the create returned
C7_AsStated ==
  [][ \A id \in RequestIds, s3ok \in BOOLEAN :
        ReadsBackCreated(id, s3ok) =>
          /\ lastResp'.status = 200
          /\ lastResp'.data = lastResp.data
    ]_vars

\* C7: a getById right after a successful create answers 200 with the row
\* the create stored: every field the create response carries reads back
\* with the same value, and every field the create response leaves out
\* reads back as null
C7_ReadsBackStored ==
  [][ \A id \in RequestIds, s3ok \in BOOLEAN :
        ReadsBackCreated(id, s3ok) =>
          /\ lastResp'.status = 200
          /\ lastResp'.success = TRUE
          /\ lastResp'.data = products[id]
          /\ lastResp'.data = buildRow(id, lastResp.body)
          /\ lastResp'.data.id = lastResp.data.id
          /\ \A f \in Fields :
               lastResp'.data[f] =
                 IF lastResp.data[f] = Undefined THEN Null ELSE lastResp.data[f]
    ]_vars

\* C7 witness: the second product, created unavailable and without the
\* optional columns, has just been read back
C7_Witness ==
  /\ lastResp.route = "getProductById"
  /\ lastResp.status = 200
  /\ lastResp.id = 2
  /\ lastResp.data.available = JFalse
  /\ lastResp.data.category = Null
  /\ lastResp.data = products[2]
  /\ nextId = 3

\* ---- C8 ----
\* C8: the save of an update leaves every other row and the set of ids as
\* they were, keeps the id of its row, keeps every field the request did not
\* supply, and, when it is answered 200, sets every field the request did
\* supply to the supplied value
C8_UpdateFrame ==
  [][ \A s3ok \in BOOLEAN :
        updateProductSave(1, s3ok) =>
          LET id == pend[1].id
              productData == pend[1].body
          IN /\ DOMAIN products' = DOMAIN products
             /\ \A i \in Ids \ {id} : products'[i] = products[i]
             /\ id \in Ids
             /\ products'[id].id = id
             /\ \A f \in Fields :
                  productData[f] = Undefined => products'[id][f] = products[id][f]
             /\ IF lastResp'.status = 200
                THEN \A f \in Fields :
                       productData[f] # Undefined => products'[id][f] = productData[f]
                ELSE products' = products
    ]_vars

\* C8 witness: with two products stored, an update that supplied available
\* and comments (and nothing else) was answered 200
C8_Witness ==
  /\ lastResp.route = "updateProduct"
  /\ lastResp.status = 200
  /\ Cardinality(Ids) = 2
  /\ lastResp.id \in Ids
  /\ products[lastResp.id].comments = "agotado"
  /\ products[lastResp.id].available = JFalse
  /\ products[lastResp.id].ean # Null

\* ---- C9 ----
\* C9: the save of a toggle is answered 200, flips available on its row,
\* keeps every other field of that row, every other row and the set of ids;
\* when the response before it is the toggle of the same id, the row is
\* back at the value it had before that first toggle
C9_ToggleInverse ==
  [][ \A s3ok \in BOOLEAN :
        toggleAvailabilitySave(1, s3ok) =>
          LET id == pend[1].id
          IN /\ id \in Ids
             /\ lastResp'.status = 200
             /\ DOMAIN products' = DOMAIN products
             /\ \A i \in Ids \ {id} : products'[i] = products[i]
             /\ products[id].available \in {JTrue, JFalse}
             /\ products'[id].available = Not(products[id].available)
             /\ lastResp'.data = products'[id]
             /\ \A f \in (Fields \ {"available"}) \cup {"id"} :
                  products'[id][f] = products[id][f]
             /\ (/\ lastResp.route = "toggleAvailability"
                 /\ lastResp.status = 200
                 /\ lastResp.id = id)
                  => /\ lastResp.data.available = products[id].available
                     /\ products'[id].available = Not(lastResp.data.available)
                     /\ Not(products'[id].available) = lastResp.data.available
    ]_vars

\* C9 witness: with two products stored, a toggle has just made a product
\* that carries a comment available again
C9_Witness ==
  /\ lastResp.route = "toggleAvailability"
  /\ lastResp.status = 200
  /\ Cardinality(Ids) = 2
  /\ lastResp.id \in Ids
  /\ lastResp.data.available = JTrue
  /\ products[lastResp.id].available = JTrue
  /\ products[lastResp.id].comments = "agotado"

\* ---- C10 ----
\* the filters of the claim: brand and category equal unless absent or
\* 'all', availability, and the search term a case-insensitive substring of
\* at least one of name, original_name, brand, ean
ContainsIgnoringCase(column, term) ==
  column # Null /\ Includes(ToLower(column), ToLower(term))

SatisfiesFilters(row, query) ==
  /\ query.brand \in {Undefined, "all"} \/ row.brand = query.brand
  /\ query.category \in {Undefined, "all"} \/ row.category = query.category
  /\ \/ query.available \in {Undefined, "all"}
     \/ query.available = "true" /\ row.available = JTrue
     \/ query.available = "false" /\ row.available = JFalse
  /\ \/ query.search = Undefined
     \/ ContainsIgnoringCase(row.name, query.search)
     \/ ContainsIgnoringCase(row.original_name, query.search)
     \/ ContainsIgnoringCase(row.brand, query.search)
     \/ ContainsIgnoringCase(row.ean, query.search)

\* the rows a response lists
Listed(resp) == {resp.items[k] : k \in 1..Len(resp.items)}

\* C10 as stated: every list request is answered with exactly the stored
\* rows that satisfy every active filter, each once, ordered by brand
\* ascending and then name ascending
C10_AsStated ==
  [][ /\ \A query \in ListQueries :
           getAllProductsCount(1, ACCESS_CODE, query) => pend'[1].op = "getAllProducts"
      /\ getAllProductsFind(1) =>
        /\ lastResp'.status = 200
        /\ Listed(lastResp') = {products[i] : i \in {j \in Ids :
                                                     SatisfiesFilters(products[j], pend[1].query)}}
        /\ Len(lastResp'.items) = Cardinality(Listed(lastResp'))
        /\ \A i, j \in 1..Len(lastResp'.items) :
             i < j => OrderedBefore(lastResp'.items[i], lastResp'.items[j])
    ]_vars

\* ---- C11 ----
\* the stored rows that pass the brand, category and search conditions of
\* the WHERE clause, the availability condition left aside
PassOtherFilters(query) ==
  {products[i] : i \in {j \in Ids :
                          Selected(products[j], [whereClause(query) EXCEPT !.available = Undefined])}}

\* C11: a list answered 200 holds, with available='false', exactly the rows
\* passing the other filters whose available is false; with available='true'
\* exactly those whose available is true; with available absent or 'all'
\* every row passing the other filters, available or not
C11_TriState ==
  [][ (getAllProductsFind(1) /\ lastResp'.status = 200 /\ ~Paginated(pend[1].query)) =>
        LET query == pend[1].query
        IN /\ query.available = "false" =>
                Listed(lastResp') = {row \in PassOtherFilters(query) : row.available = JFalse}
           /\ query.available = "true" =>
                Listed(lastResp') = {row \in PassOtherFilters(query) : row.available = JTrue}
           /\ query.available \in {Undefined, "all"} =>
                Listed(lastResp') = PassOtherFilters(query)
    ]_vars

\* C11 witness: with an available and an unavailable product stored, a list
\* with available='false' returned the unavailable one alone
C11_Witness ==
  /\ lastResp.route = "getAllProducts"
  /\ lastResp.status = 200
  /\ lastResp.query.available = "false"
  /\ Len(lastResp.items) = 1
  /\ lastResp.items[1].available = JFalse
  /\ \E i \in Ids : products[i].available = JTrue
  /\ \E i \in Ids : products[i] = lastResp.items[1]

\* ---- C12 ----
\* the ids of the filtered rows
Filtered(query) == SelectedIds(whereClause(query))

\* resp lists the filtered rows in one of the (brand, name) orders, cut to
\* the page the query asks for, and reports the totals of that page
IsPageOf(resp, query) ==
  LET page == parseInt(query.page)
      limit == parseInt(query.limit)
      total == Cardinality(Filtered(query))
      offset == (page - 1) * limit
      rest == IF total > offset THEN total - offset ELSE 0
  IN /\ resp.status = 200
     /\ Len(resp.items) = (IF rest < limit THEN rest ELSE limit)
     /\ resp.count = Len(resp.items)
     /\ \E order \in Orderings(Filtered(query)) :
          \A k \in 1..Len(resp.items) : resp.items[k] = products[order[offset + k]]
     /\ resp.pagination.present
     /\ resp.pagination.page = page
     /\ resp.pagination.limit = limit
     /\ resp.pagination.total = total
     /\ resp.pagination.totalPages * limit >= total
     /\ (resp.pagination.totalPages - 1) * limit < total

\* resp lists every filtered row in one of the (brand, name) orders and
\* carries no pagination block
IsWholeList(resp, query) ==
  /\ resp.status = 200
  /\ resp.pagination = NoPagination
  /\ resp.count = Len(resp.items)
  /\ \E order \in Orderings(Filtered(query)) :
       resp.items = [k \in 1..Len(order) |-> products[order[k]]]

\* page and limit are both supplied / both decimal numbers of at least 1
BothSupplied(query) == query.page # Undefined /\ query.limit # Undefined

PositivePage(query) ==
  /\ BothSupplied(query)
  /\ ~IsNaN(query.page) /\ ~IsNaN(query.limit)
  /\ parseInt(query.page) >= 1 /\ parseInt(query.limit) >= 1

\* C12 as stated: whenever page and limit are both supplied the response is
\* the page at offset (page-1)*limit with total and totalPages =
\* ceiling(total/limit); when either is missing it is the whole filtered list
C12_AsStated ==
  [][ getAllProductsFind(1) =>
        IF BothSupplied(pend[1].query) THEN IsPageOf(lastResp', pend[1].query)
        ELSE IsWholeList(lastResp', pend[1].query)
    ]_vars

\* C12: when page and limit are both supplied and both parse to a number of
\* at least 1, the response is the page at offset (page-1)*limit (at most
\* limit rows) of the filtered, ordered list, with total = the number of
\* filtered rows and totalPages = ceiling(total/limit); when either is
\* missing it is the whole filtered list with no pagination block; a page
\* or limit that does not start with a digit, or a page of 0 with a limit of
\* at least 1, is answered 500
C12_Pagination ==
  [][ getAllProductsFind(1) =>
        LET query == pend[1].query
        IN /\ PositivePage(query) => IsPageOf(lastResp', query)
           /\ ~BothSupplied(query) => IsWholeList(lastResp', query)
           /\ (BothSupplied(query) /\ (IsNaN(query.page) \/ IsNaN(query.limit)))
                => lastResp'.status = 500
           /\ (BothSupplied(query) /\ ~IsNaN(query.page) /\ ~IsNaN(query.limit)
                 /\ parseInt(query.page) = 0 /\ parseInt(query.limit) >= 1)
                => lastResp'.status = 500
    ]_vars

\* C12 witness: the second page of one row out of two stored products
C12_Witness ==
  /\ lastResp.route = "getAllProducts"
  /\ lastResp.status = 200
  /\ lastResp.query.page = "2" /\ lastResp.query.limit = "1"
  /\ Len(lastResp.items) = 1
  /\ lastResp.pagination.present
  /\ lastResp.pagination.total = 2
  /\ lastResp.pagination.totalPages = 2
  /\ Cardinality(Ids) = 2

\* ---- C13 ----
\* this step is the arrival of an id-addressed request for id
AddressesId(id) ==
  \/ \E s3ok \in BOOLEAN : getProductById(1, ACCESS_CODE, id, s3ok)
  \/ \E productData \in RaceUpdateBodies : updateProductLoad(1, ACCESS_CODE, id, productData)
  \/ deleteProductLoad(1, ACCESS_CODE, id)
  \/ toggleAvailabilityLoad(1, ACCESS_CODE, id)
  \/ \E comments \in CommentInputs : updateCommentsLoad(1, ACCESS_CODE, id, comments)

NotFoundAnswer(resp, id) ==
  /\ resp.status = 404
  /\ resp.success = FALSE
  /\ resp.message = MSG_NOT_FOUND
  /\ resp.id = id
  /\ resp.image_url = Undefined
  /\ resp.data = NoRow

\* C13: a getById, update, delete, toggleAvailability or setComments request
\* for an id that holds no row (never created, or deleted) is answered 404
\* with no image URL resolved, leaves the rows as they were and starts no
\* write; a delete removes its row, so the id holds no row from then on
C13_NotFound ==
  [][ /\ \A id \in RequestIds :
           (id \notin Ids /\ AddressesId(id)) =>
             /\ NotFoundAnswer(lastResp', id)
             /\ lastResp'.route \in {"getProductById", "updateProduct", "deleteProduct",
                                     "toggleAvailability", "updateComments"}
             /\ products' = products
             /\ pend' = pend
      /\ deleteProductDestroy(1) =>
           /\ lastResp'.status = 200
           /\ pend[1].id \notin DOMAIN products'
      /\ \A id \in RequestIds : (id \notin Ids /\ id < nextId) => id \notin DOMAIN products'
    ]_vars

\* C13 witness: a toggle of a product that was created and then deleted was
\* answered 404 while another product is stored
C13_Witness ==
  /\ lastResp.route = "toggleAvailability"
  /\ NotFoundAnswer(lastResp, lastResp.id)
  /\ lastResp.id < nextId
  /\ lastResp.id \notin Ids
  /\ Ids # {}

\* ---- C14 ----
\* the image_url a lookup for a row may resolve to: the signed URL of its
\* image (of the placeholder when it has none), or null
UrlOf(row) == SignedUrl(imageToUse(row))

\* C14: once the rows of a list are found, the lookups of all of them are in
\* flight together and each can settle whatever the state of the others; a
\* lookup that fails, or that finds no bucket configured, settles to null and
\* one that succeeds to the signed URL, leaving the results of the other
\* rows as they are and sending no response; the response is sent only when
\* no lookup is outstanding, and is then a 200 carrying one URL or null per
\* row; a getById whose lookup fails is answered 200 with image_url null
C14_ImageFailuresContained ==
  [][ /\ (getAllProductsFindAll(1) /\ pend'[1].op = "getAllProducts.images") =>
           /\ Len(pend'[1].urls) = Len(pend'[1].found)
           /\ \A k \in 1..Len(pend'[1].urls) : pend'[1].urls[k] = Pending
      /\ pend[1].op = "getAllProducts.images" =>
           \A k \in 1..Len(pend[1].urls) :
             pend[1].urls[k] = Pending => ENABLED imageUrlSettles(1, k, TRUE)
      /\ \A k \in 1..MaxProducts, s3ok \in BOOLEAN :
           imageUrlSettles(1, k, s3ok) =>
             /\ pend'[1].urls[k] =
                  (IF s3ok /\ env.S3_BUCKET = S3_BUCKET_NAME THEN UrlOf(pend[1].found[k])
                   ELSE Null)
             /\ \A j \in 1..Len(pend[1].urls) : j # k => pend'[1].urls[j] = pend[1].urls[j]
             /\ pend'[1].found = pend[1].found
             /\ lastResp' = lastResp
      /\ getAllProductsRespond(1) =>
           /\ \A k \in 1..Len(pend[1].urls) : pend[1].urls[k] # Pending
           /\ lastResp'.status = 200
           /\ lastResp'.success = TRUE
           /\ lastResp'.items = pend[1].found
           /\ lastResp'.urls = pend[1].urls
           /\ Len(lastResp'.urls) = Len(lastResp'.items)
           /\ \A k \in 1..Len(lastResp'.urls) :
                lastResp'.urls[k] \in {Null, UrlOf(lastResp'.items[k])}
      /\ \A id \in 1..MaxProducts :
           (id \in Ids /\ getProductById(1, ACCESS_CODE, id, FALSE)) =>
             /\ lastResp'.status = 200
             /\ lastResp'.data = products[id]
             /\ lastResp'.image_url = Null
    ]_vars

\* C14 witness: a list of two products was answered 200 with the first
\* row's lookup failed (null) and the second row's URL in place
C14_Witness ==
  /\ lastResp.route = "getAllProducts"
  /\ lastResp.status = 200
  /\ Len(lastResp.items) = 2
  /\ lastResp.urls[1] = Null
  /\ lastResp.urls[2] = UrlOf(lastResp.items[2])
  /\ env.S3_BUCKET = S3_BUCKET_NAME

\* ---- C15 ----
IsBoolean(v) == v \in {JTrue, JFalse}

\* C15: after every create, update and toggleAvailability, accepted or
\* rejected, the available of every stored product is true or false; a
\* create that supplies no available stores true, and a create or update
\* that supplies null is rejected and stores nothing
C15_AvailableIsBoolean ==
  [][ /\ \A i \in DOMAIN products' : IsBoolean(products'[i].available)
      /\ \A productData \in AvailableCreateBodies :
           createProduct(1, ACCESS_CODE, productData, TRUE, FALSE) =>
             /\ (productData.available = Undefined /\ lastResp'.status = 201)
                  => products'[lastResp'.id].available = JTrue
             /\ productData.available = Null
                  => lastResp'.status = 500 /\ products' = products
      /\ (updateProductSave(1, TRUE) /\ pend[1].body.available = Null)
           => lastResp'.status = 500 /\ products' = products
    ]_vars

\* C15 witness: an update supplying available = null was rejected while the
\* product, created without an available value, is stored as available
C15_Witness ==
  /\ lastResp.route = "updateProduct"
  /\ lastResp.status = 500
  /\ lastResp.error = "SequelizeValidationError"
  /\ lastResp.id \in Ids
  /\ products[lastResp.id].available = JTrue
  /\ products[lastResp.id].ean = "7790001"
  /\ products[lastResp.id].name = "Yerba"

\* ---- C16 ----
\* C16: the save of a setComments is answered 200 and stores null when the
\* comments of the request are the empty string or absent, and the text
\* when they are a non-empty text; every other field of the product, every
\* other product and the set of ids stay as they were
C16_EmptyCommentsAreNull ==
  [][ updateCommentsSave(1, TRUE) =>
        LET id == pend[1].id
            comments == pend[1].body.comments
        IN /\ id \in Ids
           /\ lastResp'.status = 200
           /\ products'[id].comments = (IF comments \in {Undefined, ""} THEN Null ELSE comments)
           /\ products'[id].comments # ""
           /\ lastResp'.data = products'[id]
           /\ \A f \in (Fields \ {"comments"}) \cup {"id"} :
                products'[id][f] = products[id][f]
           /\ DOMAIN products' = DOMAIN products
           /\ \A i \in Ids \ {id} : products'[i] = products[i]
    ]_vars

\* C16 witness: a setComments has just been answered with the comments of
\* its product null, another product still carrying its text
C16_Witness ==
  /\ lastResp.route = "updateComments"
  /\ lastResp.status = 200
  /\ lastResp.id \in Ids
  /\ lastResp.data.comments = Null
  /\ products[lastResp.id].comments = Null
  /\ \E i \in Ids : products[i].comments = "agotado"

\* ---- C17 ----
\* C17 as stated: a 500 answer carries no underlying error message when
\* NODE_ENV is production
C17_AsStated ==
  (lastResp.status = 500 /\ env.NODE_ENV = "production") => lastResp.error = Undefined

\* ---- C18 ----
NotFoundEnvelope(resp) ==
  resp.status = 404 /\ resp.success = FALSE /\ resp.message = MSG_ROUTE_NOT_FOUND

\* C18 as stated: every request to a path no route matches, under /api or
\* not, is answered with the not-found envelope
C18_AsStated ==
  lastResp.route \in {UNKNOWN_UNDER_API, UNKNOWN_ELSEWHERE} => NotFoundEnvelope(lastResp)

\* C18: a request to a path no route matches is answered with the not-found
\* envelope when the path is outside /api, or under /api with a session
\* cookie matching the configured hash; under /api without such a cookie it
\* is answered by the gate: 401 without a cookie or with a string cookie
\* that does not match, 500 when the hash is not configured or the cookie
\* is not a string
C18_UnknownRoutes ==
  /\ lastResp.route = UNKNOWN_ELSEWHERE => NotFoundEnvelope(lastResp)
  /\ lastResp.route = UNKNOWN_UNDER_API =>
       LET cookie == lastResp.cookie
       IN /\ (HashConfigured /\ MatchesHash(cookie)) => NotFoundEnvelope(lastResp)
          /\ cookie \in {Undefined, ""} =>
               lastResp.status = 401 /\ lastResp.message = MSG_NO_SESSION
          /\ (cookie \notin {Undefined, ""} /\ ~HashConfigured) =>
               lastResp.status = 500 /\ lastResp.message = MSG_CONFIG
          /\ (HashConfigured /\ cookie = JsonObject) =>
               lastResp.status = 500 /\ lastResp.message = MSG_GATE_ERROR
          /\ (HashConfigured /\ cookie \notin {Undefined, "", JsonObject} /\ ~MatchesHash(cookie)) =>
               lastResp.status = 401 /\ lastResp.message = MSG_BAD_SESSION
  /\ lastResp.route \in {UNKNOWN_UNDER_API, UNKNOWN_ELSEWHERE} => lastResp.handler = "none"

\* C18 witness: with a product stored, a request under /api that no route
\* matches, carrying the valid cookie, got the not-found envelope
C18_Witness ==
  /\ lastResp.route = UNKNOWN_UNDER_API
  /\ lastResp.cookie = ACCESS_CODE
  /\ NotFoundEnvelope(lastResp)
  /\ Ids # {}

Other(r) == CHOOSE o \in Clients : o # r

\* C20: a toggle reads the row as it is stored at that moment, whatever the
\* other request holds, and its save, answered 200, writes the negation of
\* the value it read, which may be stale: the row then holds that value with
\* its other fields as they were stored, and a toggle of the same id still in
\* flight keeps the row it read, so that the later save decides the stored value
C20_LastWriteWins ==
  [][ \A r \in Clients :
        /\ \A id \in 1..MaxProducts :
             (toggleAvailabilityLoad(r, ACCESS_CODE, id) /\ id \in Ids)
               => /\ pend'[r].op = "toggleAvailability"
                  /\ pend'[r].snap = products[id]
                  /\ pend'[Other(r)] = pend[Other(r)]
        /\ toggleAvailabilitySave(r, TRUE) =>
             LET id == pend[r].id
                 written == Not(pend[r].snap.available)
             IN /\ lastResp'.status = 200
                /\ lastResp'.data.available = written
                /\ pend'[r] = Idle
                /\ pend'[Other(r)] = pend[Other(r)]
                /\ id \in Ids =>
                     /\ products'[id].available = written
                     /\ \A f \in Fields \ {"available"} :
                          products'[id][f] = products[id][f]
                     /\ \A i \in Ids \ {id} : products'[i] = products[i]
                /\ (/\ id \in Ids
                    /\ pend[Other(r)].op = "toggleAvailability"
                    /\ pend[Other(r)].id = id
                    /\ pend[Other(r)].snap.available = pend[r].snap.available)
                     => Not(pend'[Other(r)].snap.available) = products'[id].available
    ]_vars

\* C20 witness: two toggles of the same stored product read available = true;
\* one has saved false and been answered, the other still holds the row it
\* read before that write
C20_Witness ==
  \E r \in Clients :
    /\ pend[r].op = "toggleAvailability"
    /\ pend[r].id \in Ids
    /\ pend[r].snap.available = JTrue
    /\ products[pend[r].id].available = JFalse
    /\ pend[Other(r)].op = "idle"
    /\ lastResp.route = "toggleAvailability"
    /\ lastResp.status = 200
    /\ lastResp.id = pend[r].id
    /\ lastResp.data.available = JFalse

\* ---- C21 ----
\* the ids the table has handed out that hold no row any more
Removed == {id \in 1..MaxProducts : id < nextId /\ id \notin Ids}

\* the routes that save over a row they loaded
SavingRoutes == {"updateProduct", "toggleAvailability", "updateComments"}

\* C21: no step brings a removed id back; the save of an update, a toggle or
\* a comment whose row was deleted after it was read leaves the table as it
\* is; getById of a removed id answers 404 and no list answer holds a row
\* with a removed id
C21_StaysRemoved ==
  [][ /\ Removed \subseteq Removed'
      /\ \A r \in Clients :
           /\ (/\ \/ updateProductSave(r, TRUE)
                  \/ toggleAvailabilitySave(r, TRUE)
                  \/ updateCommentsSave(r, TRUE)
               /\ pend[r].id \in Removed)
                => /\ products' = products
                   /\ pend'[r] = Idle
           /\ \A id \in Removed :
                getProductById(r, ACCESS_CODE, id, TRUE)
                  => /\ lastResp'.status = 404
                     /\ lastResp'.message = MSG_NOT_FOUND
           /\ getAllProductsFind(r)
                => /\ lastResp'.status = 200
                   /\ lastResp'.count = Cardinality(Ids)
                   /\ \A k \in 1..Len(lastResp'.items) :
                        lastResp'.items[k].id \notin Removed
    ]_vars

\* C21 witness: a save that loaded its row before the delete has been
\* answered after it, no request is in flight, and the id holds no row
C21_Witness ==
  /\ lastResp.route \in SavingRoutes
  /\ lastResp.status = 200
  /\ lastResp.id \in Removed
  /\ \A r \in Clients : pend[r].op = "idle"

====
